---- MODULE Spec2Model ----
(***************************************************************************)
(* EverMindAgent runtime core: the ActorWorker (actor.ts), the Agent run   *)
(* loop (agent.ts) and the Server actor registry (server.ts).              *)
(*                                                                         *)
(* Execution model.  The code runs on the Node.js event loop.  A handler   *)
(* runs synchronously up to its next `await`; the continuation of an       *)
(* `await` is a job in the microtask queue `mq`; the reactions registered  *)
(* on one promise run in registration order; external completions (LLM     *)
(* responses, tool results, database replies) and external calls (work,    *)
(* getActor) are macrotasks and run only when the microtask queue is empty.*)
(* Each action below is one synchronous stretch of code.                   *)
(***************************************************************************)
EXTENDS Naturals, Integers, Sequences, FiniteSets, TLC

\* ----------------------------------------------------------------------
\* Bounds
\* ----------------------------------------------------------------------
MaxInputs == 2      \* number of work() calls explored
MaxSteps == 2       \* config.agent.maxSteps explored
MaxFaults == 1      \* failures injected by the environment (LLM errors, calls of
                    \* unknown tools, failed tools, failed store requests)
MaxTemplateLen == 2 \* symbols of a system prompt template
MaxMessages == 11   \* messages held by the conversation store
MaxDocuments == 1   \* documents inserted into the database
MaxSnapshots == 3   \* Server.snapshot calls explored
\* ----------------------------------------------------------------------
\* Program constants
\* ----------------------------------------------------------------------
BufferWindow == 10  \* getBuffer(10) in buildSystemPrompt

EmaReply == "ema_reply"
KnownTools == {EmaReply, "search"}
ToolNames == KnownTools \cup {"bogus"}
\* the toolCalls of the model messages explored: none, one call of each tool,
\* and the reply tool before and after a call of a tool that does not exist
ToolCallLists == {<<>>} \cup {<<t>> : t \in ToolNames}
                   \cup {<<EmaReply, "bogus">>, <<"bogus", EmaReply>>}

VARIABLES
  \* ActorWorker fields
  currentStatus, agentState, queue, hasEmaReplyInRun, currentRunPromise,
  processingQueue, resumeStateAfterAbort, bufferWritePromise,
  \* Agent fields
  status, abortController, abortRequested, contextState,
  \* runtime: AgentState objects, run promises, microtask queue, calls in flight
  heap, runs, mq, llmCalls, toolExecs, dbReads, dbWrites, store,
  \* observation: events delivered to subscribers during the current run, number
  \* of buffer writes enqueued, work() calls (made, pending, last made, last
  \* returned), active processQueue invocations
  delivered, nEnq, nWork, calls, lastCall, lastReturn, pqActive,
  \* observation: the inputs of the last work() call (<<"none">> before the
  \* first); the status changes made so far, as pairs <<from, to>>
  lastInputs, statusTransitions,
  \* environment: failures injected so far
  faults,
  \* Server fields
  actors, actorInFlight,
  \* runtime of the registry: actor creations (the in-flight promises), workers
  \* constructed; observation: the getActor calls
  creations, workers, gets,
  \* AgendaScheduler field `status`
  schedulerStatus,
  \* Agenda: names given to define(), the job processor started or not, the
  \* documents of the collection "agenda" and the handler runs bound to them
  agendaDefinitions, agendaStarted, agendaJobs,
  \* runtime: the calls made to the scheduler; the time, in ticks
  schedulerCalls, clock,
  \* buildSystemPrompt: the template it is given, the messages of the conversation in the
  \* store (oldest first), and the call made (its result once it returned)
  promptTemplate, conversationMessages, promptCall,
  \* Server.snapshot: the `collections` field of each component, whether
  \* `this.scheduler` is set, the documents of the database by collection,
  \* and the snapshots written so far
  dbCollections, serverScheduler, mongoDocuments, snapshotFiles

workerVars == <<currentStatus, agentState, queue, hasEmaReplyInRun, currentRunPromise,
                processingQueue, resumeStateAfterAbort, bufferWritePromise,
                status, abortController, abortRequested, contextState,
                heap, runs, mq, llmCalls, toolExecs, dbReads, dbWrites, store,
                delivered, nEnq, nWork, calls, lastCall, lastReturn, pqActive,
                lastInputs, statusTransitions, faults>>

serverVars == <<actors, actorInFlight, creations, workers, gets>>

schedulerVars == <<schedulerStatus, agendaDefinitions, agendaStarted, agendaJobs,
                   schedulerCalls, clock>>

promptVars == <<promptTemplate, conversationMessages, promptCall>>

snapshotVars == <<dbCollections, serverScheduler, mongoDocuments, snapshotFiles>>

vars == <<workerVars, serverVars, schedulerVars, promptVars, snapshotVars>>

\* ----------------------------------------------------------------------
\* Helpers
\* ----------------------------------------------------------------------
Range(f) == {f[i] : i \in DOMAIN f}

\* the last n elements of a sequence
LastN(q, n) == IF Len(q) <= n THEN q ELSE SubSeq(q, Len(q) - n + 1, Len(q))

\* the whole program state as one record, so that the statements of a
\* handler compose as functions from state to state
S == [currentStatus |-> currentStatus, agentState |-> agentState, queue |-> queue,
      hasEmaReplyInRun |-> hasEmaReplyInRun, currentRunPromise |-> currentRunPromise,
      processingQueue |-> processingQueue, resumeStateAfterAbort |-> resumeStateAfterAbort,
      bufferWritePromise |-> bufferWritePromise,
      status |-> status, abortController |-> abortController,
      abortRequested |-> abortRequested, contextState |-> contextState,
      heap |-> heap, runs |-> runs, mq |-> mq, llmCalls |-> llmCalls,
      toolExecs |-> toolExecs, dbReads |-> dbReads, dbWrites |-> dbWrites, store |-> store,
      delivered |-> delivered, nEnq |-> nEnq, nWork |-> nWork, calls |-> calls,
      lastCall |-> lastCall, lastReturn |-> lastReturn, pqActive |-> pqActive,
      lastInputs |-> lastInputs, statusTransitions |-> statusTransitions,
      faults |-> faults]

Commit(s) ==
  /\ currentStatus' = s.currentStatus
  /\ agentState' = s.agentState
  /\ queue' = s.queue
  /\ hasEmaReplyInRun' = s.hasEmaReplyInRun
  /\ currentRunPromise' = s.currentRunPromise
  /\ processingQueue' = s.processingQueue
  /\ resumeStateAfterAbort' = s.resumeStateAfterAbort
  /\ bufferWritePromise' = s.bufferWritePromise
  /\ status' = s.status
  /\ abortController' = s.abortController
  /\ abortRequested' = s.abortRequested
  /\ contextState' = s.contextState
  /\ heap' = s.heap
  /\ runs' = s.runs
  /\ mq' = s.mq
  /\ llmCalls' = s.llmCalls
  /\ toolExecs' = s.toolExecs
  /\ dbReads' = s.dbReads
  /\ dbWrites' = s.dbWrites
  /\ store' = s.store
  /\ delivered' = s.delivered
  /\ nEnq' = s.nEnq
  /\ nWork' = s.nWork
  /\ calls' = s.calls
  /\ lastCall' = s.lastCall
  /\ lastReturn' = s.lastReturn
  /\ pqActive' = s.pqActive
  /\ lastInputs' = s.lastInputs
  /\ statusTransitions' = s.statusTransitions
  /\ faults' = s.faults
  /\ UNCHANGED <<serverVars, schedulerVars, promptVars, snapshotVars>>

\* a microtask: the continuation `k` of an await, with the locals it closes over
Job(k, call, run, step, x, y) ==
  [k |-> k, call |-> call, run |-> run, step |-> step, x |-> x, y |-> y]

Push(s, j) == [s EXCEPT !.mq = Append(@, j)]

\* `await p` on a run promise: a settled (or null) operand resumes in the next
\* microtask, a pending one appends the continuation to the promise's reactions
AwaitPromise(s, p, j) ==
  IF p = 0 \/ s.runs[p].done THEN Push(s, j)
  ELSE [s EXCEPT !.runs[p].reactions = Append(@, j)]

\* ----------------------------------------------------------------------
\* Messages
\* ----------------------------------------------------------------------
bufferMessageFromUser(inputs) == [kind |-> "user", contents |-> inputs]
bufferMessageFromEma(reply) == [kind |-> "actor", contents |-> reply]
bufferMessageToUserMessage(bm) == [role |-> "user", contents |-> bm.contents]
UserMessages(batches) == [n \in DOMAIN batches |-> bufferMessageToUserMessage(batches[n])]
ModelMessage(toolCalls) == [role |-> "model", toolCalls |-> toolCalls]
\* ToolResult {success, content?}: a successful result carries content
ToolResult(ok) == [success |-> ok, content |-> IF ok THEN "content" ELSE "undefined"]
\* variant: the tool message does not carry the name of the call
ToolMessage_Unnamed(name, result) ==
  [role |-> "tool", name |-> "tool", success |-> result.success, content |-> result.content]

ToolMessage(name, result) ==
  [role |-> "tool", name |-> name, success |-> result.success, content |-> result.content]

\* ----------------------------------------------------------------------
\* ActorWorker: buffer write pipeline
\* ----------------------------------------------------------------------
\* bufferWritePromise is the tail of a promise chain.  `links` are the
\* then-callbacks registered and not yet run, `busy` says that a link is
\* scheduled or its write is in flight, `rejected` that the last settled link
\* was rejected.  Every message is stamped with its position `seq` in the
\* order of the enqueueBufferWrite calls.
Stamp(s, message) == [kind |-> message.kind, contents |-> message.contents,
                      seq |-> s.nEnq + 1]

\* variant: the write is issued at once instead of being chained
enqueueBufferWrite_Unchained(s, message) ==
  [s EXCEPT !.dbWrites = @ \cup {[msg |-> Stamp(s, message), chained |-> FALSE]},
            !.nEnq = @ + 1]

enqueueBufferWrite(s, message) ==
  LET s1 == [s EXCEPT !.bufferWritePromise.links = Append(@, Stamp(s, message)),
                      !.nEnq = @ + 1]
  IN IF s.bufferWritePromise.busy THEN s1
     ELSE Push([s1 EXCEPT !.bufferWritePromise.busy = TRUE],
               Job("BufLink", 0, 0, 0, <<>>, <<>>))

\* addBuffer: one addConversationMessage request to the conversation store
addBuffer(s, message) ==
  [s EXCEPT !.dbWrites = @ \cup {[msg |-> message, chained |-> TRUE]}]

\* the next link of the chain settles: go on with the link after it, if any
NextLink(s) ==
  IF s.bufferWritePromise.links = <<>>
  THEN [s EXCEPT !.bufferWritePromise.busy = FALSE]
  ELSE Push(s, Job("BufLink", 0, 0, 0, <<>>, <<>>))

\* ----------------------------------------------------------------------
\* ActorWorker: events
\* ----------------------------------------------------------------------
\* the reply is in the write pipeline: enqueued, and no write of it has started
InPipeline(s, reply) ==
  \E n \in DOMAIN s.bufferWritePromise.links :
     /\ s.bufferWritePromise.links[n].kind = "actor"
     /\ s.bufferWritePromise.links[n].contents = reply

\* variant: the listener is bound twice, every event is delivered twice
Deliver_Twice(s, ev) ==
  [s EXCEPT !.delivered = @ \o
     << [kind |-> ev.kind, run |-> ev.run, msg |-> ev.msg, reply |-> ev.reply,
         durable |-> InPipeline(s, ev.reply)],
        [kind |-> ev.kind, run |-> ev.run, msg |-> ev.msg, reply |-> ev.reply,
         durable |-> InPipeline(s, ev.reply)] >>]

\* this.events.emit: synchronous delivery to the subscribers.  `durable`
\* records whether the reply was already in the write pipeline at delivery.
Deliver(s, ev) ==
  [s EXCEPT !.delivered = Append(@,
     [kind |-> ev.kind, run |-> ev.run, msg |-> ev.msg, reply |-> ev.reply,
      durable |-> InPipeline(s, ev.reply)])]

\* variant: the subscribers are served before the reply is enqueued
emitEvent_DeliverFirst(s, ev) ==
  IF ev.kind = "emaReplyReceived"
  THEN LET s1 == [Deliver(s, ev) EXCEPT !.hasEmaReplyInRun = TRUE,
                                        !.resumeStateAfterAbort = FALSE]
       IN enqueueBufferWrite(s1, bufferMessageFromEma(ev.reply))
  ELSE Deliver(s, ev)

emitEvent(s, ev) ==
  IF ev.kind = "emaReplyReceived"
  THEN LET s1 == [s EXCEPT !.hasEmaReplyInRun = TRUE,
                           !.resumeStateAfterAbort = FALSE]
       IN Deliver(enqueueBufferWrite(s1, bufferMessageFromEma(ev.reply)), ev)
  ELSE Deliver(s, ev)

\* setStatus: the "Actor status" message event carries no state
setStatus(s, st) ==
  [s EXCEPT !.currentStatus = st,
            !.statusTransitions = @ \cup {<<s.currentStatus, st>>}]

isBusy(s) == s.currentStatus # "idle"

\* ----------------------------------------------------------------------
\* Agent
\* ----------------------------------------------------------------------
ActiveRuns(s) == {r \in DOMAIN s.runs : ~s.runs[r].done}

\* the agent's events reach the worker through bindAgentEvent
AgentEmit(s, r, kind, msg, reply) ==
  LET s1 == IF kind = "runFinished"
            THEN [s EXCEPT !.runs[r].fin = Append(@, msg)]
            ELSE [s EXCEPT !.runs[r].replied = TRUE]
      s2 == [s1 EXCEPT !.runs[r].emitted =
                          Append(@, [kind |-> kind, msg |-> msg, reply |-> reply])]
  IN emitEvent(s2, [kind |-> kind, run |-> r, msg |-> msg, reply |-> reply])

\* variant: the aborted run returns without the event
finishAborted_Silent(s, r) == s

finishAborted(s, r) == AgentEmit(s, r, "runFinished", "Aborted", 0)

\* mainLoop returns: run()'s finally block runs in a later microtask
ReturnFromLoop(s, r) == Push(s, Job("RunFinally", 0, r, 0, <<>>, <<>>))

\* LLMClient.generate(messages, tools, systemPrompt): the fourth argument the
\* agent passes (the abort signal) is not a parameter and is dropped
generate(s, r, step, signal) ==
  [s EXCEPT !.llmCalls = @ \cup {[run |-> r, step |-> step, signal |-> FALSE,
                                   cancelled |-> FALSE]},
            !.runs[r].afterAbort = @ \/ s.abortRequested,
            !.runs[r].llm = @ + 1]

\* tool.execute(callArgs, toolContext): no abort signal is handed to the tool
execute(s, r, step, toolCalls) ==
  [s EXCEPT !.toolExecs = @ \cup {[run |-> r, step |-> step, toolCalls |-> toolCalls,
                                    signal |-> FALSE, cancelled |-> FALSE]},
            !.runs[r].afterAbort = @ \/ s.abortRequested]

\* Agent.abort
abort(s) ==
  IF s.status = "idle" THEN s
  ELSE [s EXCEPT !.abortRequested = TRUE,
                 !.abortController = IF @ = "null" THEN @ ELSE "aborted",
                 !.runs = [r \in DOMAIN @ |->
                             IF @[r].done THEN @[r] ELSE [@[r] EXCEPT !.abortReq = TRUE]],
                 !.llmCalls = {IF c.signal THEN [c EXCEPT !.cancelled = TRUE] ELSE c : c \in @},
                 !.toolExecs = {IF c.signal THEN [c EXCEPT !.cancelled = TRUE] ELSE c : c \in @}]

\* variant: the loop test lets one more step through
LoopHead_OffByOne(s, r, step) ==
  IF step <= MaxSteps
  THEN IF s.abortRequested
       THEN ReturnFromLoop(finishAborted(s, r), r)
       ELSE generate(s, r, step, s.abortController # "null")
  ELSE ReturnFromLoop(AgentEmit(s, r, "runFinished", "steps", 0), r)

\* top of the while loop of mainLoop
LoopHead(s, r, step) ==
  IF step < MaxSteps
  THEN IF s.abortRequested
       THEN ReturnFromLoop(finishAborted(s, r), r)
       ELSE generate(s, r, step, s.abortController # "null")
  ELSE ReturnFromLoop(AgentEmit(s, r, "runFinished", "steps", 0), r)

addModelMessage(s, r, toolCalls) ==
  [s EXCEPT !.heap[s.contextState].messages = Append(@, ModelMessage(toolCalls)),
            !.runs[r].afterAbort = @ \/ s.abortRequested]

\* variant: the tool result is not added to the context
addToolMessage_Skip(s, name, result) == s

addToolMessage(s, name, result) ==
  [s EXCEPT !.heap[s.contextState].messages = Append(@, ToolMessage(name, result))]

\* variant: the content stays on the result
clearContent_Keep(result) == result

\* result.content = undefined (line 337)
clearContent(result) == [result EXCEPT !.content = "undefined"]

\* the reply parsed from the tool result; replies are told apart by the run
\* and the position in the run at which they were produced
NextReplyId(s, r) == 100 * r + Len(s.heap[s.contextState].messages)

\* variant: a failed tool call leaves no tool message
AfterTool_FailureUnrecorded(s, r, name, ok) ==
  IF ~ok THEN s
  ELSE IF name = EmaReply
       THEN addToolMessage(AgentEmit(s, r, "emaReplyReceived", "reply", NextReplyId(s, r)),
                           name, clearContent(ToolResult(ok)))
       ELSE addToolMessage(s, name, ToolResult(ok))

\* lines 332-346 of mainLoop: what follows the execution of one tool call
AfterTool(s, r, name, ok) ==
  LET result == ToolResult(ok)
  IN IF result.success /\ name = EmaReply
     THEN addToolMessage(AgentEmit(s, r, "emaReplyReceived", "reply", NextReplyId(s, r)),
                         name, clearContent(result))
     ELSE addToolMessage(s, name, result)

\* the for loop over response.message.toolCalls, from the call at the head
RECURSIVE ToolLoop(_, _, _, _)
ToolLoop(s, r, step, toolCalls) ==
  IF toolCalls = <<>> THEN LoopHead(s, r, step + 1)
  ELSE IF s.abortRequested THEN ReturnFromLoop(finishAborted(s, r), r)
  ELSE IF Head(toolCalls) \notin KnownTools
       THEN ToolLoop(AfterTool(s, r, Head(toolCalls), FALSE), r, step, Tail(toolCalls))
       ELSE execute(s, r, step, toolCalls)

\* The record of a run: its promise (done, reactions), the AgentState object
\* it runs on, the batch it was launched for, the number of messages the
\* state held at launch, what happened in it (abort requested, reply emitted,
\* runFinished events, an LLM call, tool execution or model message after the
\* abort request, LLM calls made, "LLM call failed" logged, generate failed
\* with RetryExhaustedError, the LLM calls made and the messages held when
\* generate failed, the executions of its tools that threw or returned a
\* failure, the agent events emitted in order, messages at the end), and what is
\* remembered of the run before it: its AgentState object, whether an abort
\* was requested and a reply emitted in it, the last input of its batch, and
\* whether this run started on that run's messages followed by the new batch.
\* Runs that are over are forgotten when the next one starts.
NoPrev == [state |-> 0, last |-> 0, abortReq |-> FALSE, replied |-> FALSE,
           extended |-> FALSE]

NewRun(st, batches, startLen, prev) ==
  [done |-> FALSE, reactions |-> <<>>, state |-> st, batch |-> batches,
   startLen |-> startLen, abortReq |-> FALSE, replied |-> FALSE, fin |-> <<>>,
   afterAbort |-> FALSE, llm |-> 0, llmFailed |-> FALSE, retryExhausted |-> FALSE,
   failLlm |-> 0, failLen |-> 0, toolFailures |-> 0, emitted |-> <<>>, endLen |-> 0,
   prev |-> prev]

Forgotten == [NewRun(0, <<>>, 0, NoPrev) EXCEPT !.done = TRUE]

Summary(s, run, st, batches) ==
  [state |-> run.state, last |-> run.batch[Len(run.batch)].contents,
   abortReq |-> run.abortReq, replied |-> run.replied,
   extended |-> /\ Len(s.heap[st].messages) = run.endLen + Len(batches)
                /\ SubSeq(s.heap[st].messages, run.endLen + 1,
                          run.endLen + Len(batches)) = UserMessages(batches)]

\* AgentState objects that no field refers to any more are garbage
Collect(s) ==
  [s EXCEPT !.heap = [o \in DOMAIN @ |->
                        IF o \in {s.agentState, s.contextState} THEN @[o]
                        ELSE [systemPrompt |-> <<>>, messages |-> <<>>]]]

\* Agent.runWithState / run / loop / mainLoop up to the first await
runWithState(s, st, batches) ==
  LET r == Len(s.runs) + 1
      prev == IF s.runs = <<>> THEN NoPrev
              ELSE Summary(s, s.runs[Len(s.runs)], st, batches)
      old == [n \in DOMAIN s.runs |-> IF s.runs[n].done THEN Forgotten ELSE s.runs[n]]
      s1 == [s EXCEPT !.status = "running", !.abortRequested = FALSE,
                      !.abortController = "live", !.contextState = st,
                      !.runs = Append(old, NewRun(st, batches,
                                                  Len(s.heap[st].messages), prev)),
                      !.delivered = <<>>]
  IN LoopHead(Collect(s1), r, 0)

\* ----------------------------------------------------------------------
\* ActorWorker: processQueue
\* ----------------------------------------------------------------------
\* variant: the run is launched and not awaited
awaitRun_NoAwait(s, r, j) == Push(s, j)

\* `await this.currentRunPromise` of processQueue (line 317)
awaitRun(s, r, j) == AwaitPromise(s, r, j)

\* variant: the fresh state starts from the history the agent still holds
buildAgentState_KeepHistory(s, systemPrompt, batches) ==
  [systemPrompt |-> systemPrompt,
   messages |-> (IF s.contextState = 0 THEN <<>> ELSE s.heap[s.contextState].messages)
                  \o UserMessages(batches)]

\* the object literal of lines 297-310
buildAgentState(s, systemPrompt, batches) ==
  [systemPrompt |-> systemPrompt, messages |-> UserMessages(batches)]

\* variant: the status is not set to running
Launch_NoStatus(s, call, batches) ==
  LET s1 == [s EXCEPT !.resumeStateAfterAbort = FALSE, !.hasEmaReplyInRun = FALSE]
      r == Len(s1.runs) + 1
      s2 == [runWithState(s1, s1.agentState, batches) EXCEPT !.currentRunPromise = r]
  IN awaitRun(s2, r, Job("PqAfterRun", call, r, 0, <<>>, <<>>))

\* lines 312-317: reset the flags, launch the run, await it
Launch(s, call, batches) ==
  LET s1 == setStatus([s EXCEPT !.resumeStateAfterAbort = FALSE,
                                !.hasEmaReplyInRun = FALSE], "running")
      r == Len(s1.runs) + 1
      s2 == [runWithState(s1, s1.agentState, batches) EXCEPT !.currentRunPromise = r]
  IN awaitRun(s2, r, Job("PqAfterRun", call, r, 0, <<>>, <<>>))

\* work() returns (or rejects) to its caller
WorkReturns(s, call) ==
  LET c == CHOOSE c \in s.calls : c.id = call
  IN [s EXCEPT !.calls = @ \ {c},
               !.lastReturn = [id |-> c.id, at |-> c.at, run |-> c.run,
                               runDone |-> c.run = 0 \/ s.runs[c.run].done]]

\* outer finally of processQueue, then the return to work()
ExitQueue(s, call) ==
  WorkReturns([s EXCEPT !.processingQueue = FALSE, !.pqActive = @ - 1], call)

\* getBuffer(10): a listConversationMessages request to the conversation store
getBuffer(s, call, batches) ==
  [s EXCEPT !.dbReads = @ \cup {[call |-> call, batch |-> batches]}]

\* variant: the AgentState of the run is kept
afterRun_KeepState(s) ==
  LET s1 == [s EXCEPT !.currentRunPromise = 0]
  IN IF s1.queue = <<>> /\ ~s1.resumeStateAfterAbort THEN setStatus(s1, "idle") ELSE s1

\* the inner finally of processQueue (lines 318-326)
afterRun(s) ==
  LET s1 == [s EXCEPT !.currentRunPromise = 0]
      s2 == IF ~s1.resumeStateAfterAbort THEN [s1 EXCEPT !.agentState = 0] ELSE s1
  IN IF s2.queue = <<>> /\ ~s2.resumeStateAfterAbort THEN setStatus(s2, "idle") ELSE s2

\* head of the while loop of processQueue
QueueLoop(s, call) ==
  IF s.queue # <<>>
  THEN LET s1 == setStatus(s, "preparing")
           batches == s1.queue
           s2 == [s1 EXCEPT !.queue = <<>>]
       IN IF s2.resumeStateAfterAbort /\ s2.agentState # 0
          THEN Launch([s2 EXCEPT !.heap[s2.agentState].messages = @ \o UserMessages(batches)],
                      call, batches)
          ELSE getBuffer(s2, call, batches)
  ELSE ExitQueue(s, call)

processQueue(s, call) ==
  IF s.processingQueue THEN WorkReturns(s, call)
  ELSE QueueLoop([s EXCEPT !.processingQueue = TRUE, !.pqActive = @ + 1], call)

\* variant: abortCurrentRun returns without awaiting the run
acrAwaitRun_NoWait(s, call) == Push(s, Job("AcrAfterRun", call, 0, 0, <<>>, <<>>))

\* `await this.currentRunPromise` of abortCurrentRun (line 343)
acrAwaitRun(s, call) ==
  AwaitPromise(s, s.currentRunPromise, Job("AcrAfterRun", call, 0, 0, <<>>, <<>>))

abortCurrentRun(s, call) ==
  IF s.currentRunPromise = 0
  THEN Push(s, Job("WorkAfterAbort", call, 0, 0, <<>>, <<>>))
  ELSE Push(abort(s), Job("AcrAfterAbort", call, 0, 0, <<>>, <<>>))

\* ----------------------------------------------------------------------
\* Initial state
\* ----------------------------------------------------------------------
WorkerInit ==
  /\ currentStatus = "idle"
  /\ agentState = 0
  /\ queue = <<>>
  /\ hasEmaReplyInRun = FALSE
  /\ currentRunPromise = 0
  /\ processingQueue = FALSE
  /\ resumeStateAfterAbort = FALSE
  /\ bufferWritePromise = [links |-> <<>>, busy |-> FALSE, rejected |-> FALSE]
  /\ status = "idle"
  /\ abortController = "null"
  /\ abortRequested = FALSE
  /\ contextState = 0
  /\ heap = <<>>
  /\ runs = <<>>
  /\ mq = <<>>
  /\ llmCalls = {}
  /\ toolExecs = {}
  /\ dbReads = {}
  /\ dbWrites = {}
  /\ store = <<>>
  /\ delivered = <<>>
  /\ nEnq = 0
  /\ nWork = 0
  /\ calls = {}
  /\ lastCall = [id |-> 0, at |-> "idle", run |-> 0, abortSet |-> FALSE, launched |-> 0]
  /\ lastReturn = [id |-> 0, at |-> "idle", run |-> 0, runDone |-> TRUE]
  /\ pqActive = 0
  /\ lastInputs = <<"none">>
  /\ statusTransitions = {}
  /\ faults = 0

\* ----------------------------------------------------------------------
\* Server: the actor registry
\* ----------------------------------------------------------------------
MaxGets == 3        \* number of getActor calls explored

\* (userId, actorId, conversationId) of the getActor calls explored
Scopes == {<<1, 11, 1>>, <<11, 1, 1>>}

\* `${userId}:${actorId}:${conversationId}`
actorKey(userId, actorId, conversationId) ==
  ToString(userId) \o ":" \o ToString(actorId) \o ":" \o ToString(conversationId)

Keys == {actorKey(sc[1], sc[2], sc[3]) : sc \in Scopes}

ServerInit ==
  /\ actors = [key \in Keys |-> 0]
  /\ actorInFlight = [key \in Keys |-> 0]
  /\ creations = <<>>
  /\ workers = <<>>
  /\ gets = <<>>

\* new AgendaScheduler(mongo, config), initialize(): status idle, nothing
\* defined, the processor not started, an empty collection
SchedulerInit ==
  /\ schedulerStatus = "idle"
  /\ agendaDefinitions = {}
  /\ agendaStarted = FALSE
  /\ agendaJobs = <<>>
  /\ schedulerCalls = <<>>
  /\ clock = 0

\* ----------------------------------------------------------------------
\* buildSystemPrompt
\* ----------------------------------------------------------------------
\* A text is a sequence of symbols; the token {MEMORY_BUFFER} is one symbol,
\* a "$" and the character after it are two.
MemoryBufferToken == "{MEMORY_BUFFER}"

\* the system prompt templates explored
Templates == UNION {[1..n -> {"x", MemoryBufferToken}] : n \in 0..MaxTemplateLen}

\* the messages explored: what a user and what the actor said
Messages == {[kind |-> "user", contents |-> <<"m">>],
             [kind |-> "actor", contents |-> <<"$", "&">>]}

\* the entity of the conversation store that holds message number i
ConversationMessageEntity(i, message) == [id |-> i, message |-> message, createdAt |-> i]

\* the contents of the conversation store explored, oldest message first
ConversationStores ==
  UNION {{[i \in 1..n |-> ConversationMessageEntity(i, ms[i])] : ms \in [1..n -> Messages]}
           : n \in 0..MaxMessages}

Reverse(q) == [i \in 1..Len(q) |-> q[Len(q) + 1 - i]]

\* listConversationMessages({conversationId, limit, sort: "desc"}): the
\* `limit` most recent messages of the conversation, the newest first
listConversationMessages(messages, limit) == Reverse(LastN(messages, limit))

\* the BufferMessage getBuffer makes of a stored entity
BufferMessage(item) ==
  [kind |-> item.message.kind,
   name |-> IF item.message.kind = "user" THEN "userName" ELSE "actorName",
   contents |-> item.message.contents,
   time |-> item.createdAt]

\* getBuffer(count): the answer of the store, reversed, as BufferMessages
bufferMessages(messages, count) ==
  LET listed == Reverse(listConversationMessages(messages, count))
  IN [i \in 1..Len(listed) |-> BufferMessage(listed[i])]

\* bufferMessageToPrompt(item): [timestamp] name: text
bufferMessageToPrompt(item) ==
  <<"[", ToString(item.time), "] ", item.name, ": ">> \o item.contents

\* items.join(separator)
RECURSIVE join(_, _)
join(items, separator) ==
  IF items = <<>> THEN <<>>
  ELSE IF Len(items) = 1 THEN items[1]
  ELSE items[1] \o <<separator>> \o join(Tail(items), separator)

\* What String.prototype.replaceAll inserts for one match of a string
\* pattern when the replacement is the string `replacement`: "$$" stands for
\* "$", "$&" for the matched text, "$`" and "$'" for the text before and
\* after the match; every other symbol stands for itself.
RECURSIVE GetSubstitution(_, _, _, _)
GetSubstitution(matched, str, position, replacement) ==
  IF replacement = <<>> THEN <<>>
  ELSE IF replacement[1] = "$" /\ Len(replacement) >= 2
            /\ replacement[2] \in {"$", "&", "`", "'"}
  THEN (CASE replacement[2] = "$" -> <<"$">>
          [] replacement[2] = "&" -> <<matched>>
          [] replacement[2] = "`" -> SubSeq(str, 1, position - 1)
          [] replacement[2] = "'" -> SubSeq(str, position + 1, Len(str)))
       \o GetSubstitution(matched, str, position, Tail(Tail(replacement)))
  ELSE <<replacement[1]>> \o GetSubstitution(matched, str, position, Tail(replacement))

\* str.replaceAll(searchValue, replaceValue), from position `position` on
RECURSIVE replaceFrom(_, _, _, _)
replaceFrom(str, searchValue, replaceValue, position) ==
  IF position > Len(str) THEN <<>>
  ELSE (IF str[position] = searchValue
        THEN GetSubstitution(searchValue, str, position, replaceValue)
        ELSE <<str[position]>>)
       \o replaceFrom(str, searchValue, replaceValue, position + 1)

replaceAll(str, searchValue, replaceValue) == replaceFrom(str, searchValue, replaceValue, 1)

\* buildSystemPrompt(systemPrompt) over a store that holds `messages`
buildSystemPrompt(template, messages) ==
  LET bufferWindow == bufferMessages(messages, BufferWindow)
      bufferText ==
        IF Len(bufferWindow) = 0
        THEN <<"None.">>
        ELSE join([i \in 1..Len(bufferWindow) |-> bufferMessageToPrompt(bufferWindow[i])], "\n")
  IN replaceAll(template, MemoryBufferToken, bufferText)

\* no buildSystemPrompt call made
NoPromptCall == [done |-> FALSE, text |-> <<>>]

\* a worker that has not been asked for a prompt, over an empty conversation
PromptInit ==
  /\ promptTemplate = <<>>
  /\ conversationMessages = <<>>
  /\ promptCall = NoPromptCall

\* the inputs of buildSystemPrompt: a template and a conversation
PromptInputs ==
  /\ promptTemplate \in Templates
  /\ conversationMessages \in ConversationStores
  /\ promptCall = NoPromptCall

\* await this.buildSystemPrompt(systemPrompt)
BuildSystemPrompt ==
  /\ ~promptCall.done
  /\ promptCall' = [done |-> TRUE, text |-> buildSystemPrompt(promptTemplate, conversationMessages)]
  /\ UNCHANGED <<promptTemplate, conversationMessages>>
  /\ UNCHANGED <<workerVars, serverVars, schedulerVars, snapshotVars>>

\* ----------------------------------------------------------------------
\* Server.snapshot
\* ----------------------------------------------------------------------
\* the components Server.snapshot asks for their collections, in the order
\* of the array `dbs`
Dbs == <<"utilCollections", "roleDB", "actorDB", "userDB", "userOwnActorDB",
         "conversationDB", "conversationMessageDB", "shortTermMemoryDB",
         "longTermMemoryDB", "longTermMemoryVectorSearcher">>

\* AgendaScheduler.collectionName
SchedulerCollectionName == "agenda"

\* the collection names explored, in the order of their UTF-16 code units
CollectionNames == <<"actors", "agenda", "long_term_memories">>

\* the `collections` field of MongoLongTermMemoryDB
LongTermMemoryCollections == <<"long_term_memories">>

\* the `collections` fields explored for the other components
DeclaredCollections == {<<"actors">>, <<"long_term_memories">>}

\* the names of the snapshots taken
SnapshotNames == {"default", "backup"}

\* this.snapshotPath(name)
snapshotPath(name) == <<"mongo-snapshots/", name, ".json">>

\* dbs.flatMap((db) => db.collections)
RECURSIVE flatMapCollections(_, _)
flatMapCollections(dbs, fields) ==
  IF dbs = <<>> THEN <<>>
  ELSE fields[Head(dbs)] \o flatMapCollections(Tail(dbs), fields)

\* new Set<string>(names), then Array.from: the names in the order of their
\* first occurrence
RECURSIVE ArrayFromSet(_)
ArrayFromSet(names) ==
  IF names = <<>> THEN <<>>
  ELSE LET front == ArrayFromSet(SubSeq(names, 1, Len(names) - 1))
           last == names[Len(names)]
       IN IF last \in Range(front) THEN front ELSE Append(front, last)

\* the comparison Array.prototype.sort makes without a comparator
CodeUnitPosition(name) == CHOOSE i \in DOMAIN CollectionNames : CollectionNames[i] = name
Precedes(a, b) == CodeUnitPosition(a) < CodeUnitPosition(b)

\* collections that are traversed as the array holds them
sort_Unsorted(names) == names

\* collections.sort()
RECURSIVE sort(_)
sort(names) ==
  IF names = <<>> THEN <<>>
  ELSE LET least == CHOOSE a \in Range(names) : \A b \in Range(names) : ~Precedes(b, a)
       IN <<least>> \o sort(SelectSeq(names, LAMBDA n : n # least))

\* the names Server.snapshot hands to Mongo.snapshot
snapshotCollections(fields, scheduler) ==
  LET collections == ArrayFromSet(flatMapCollections(Dbs, fields))
  IN IF scheduler /\ SchedulerCollectionName \notin Range(collections)
     THEN Append(collections, SchedulerCollectionName)
     ELSE collections

\* Mongo.snapshot(collections): for each name of collections.sort(), the
\* documents find().toArray() returns, keyed in that order
mongoSnapshot(collections, documents) ==
  LET names == sort(collections)
  IN [i \in 1..Len(names) |-> <<names[i], documents[names[i]]>>]

\* Server.create over an empty database, each component other than the
\* long-term memory store declaring the collection "actors"
SnapshotInit ==
  /\ dbCollections = [d \in Range(Dbs) |->
                        IF d = "longTermMemoryDB" THEN LongTermMemoryCollections
                        ELSE <<"actors">>]
  /\ serverScheduler = TRUE
  /\ mongoDocuments = [n \in Range(CollectionNames) |-> <<>>]
  /\ snapshotFiles = <<>>

\* Server.createSync over an empty database: every component declares its
\* collections; create() sets the scheduler as well, createSync does not
SnapshotInputs ==
  /\ dbCollections \in {f \in [Range(Dbs) -> DeclaredCollections \cup {LongTermMemoryCollections}] :
                          f["longTermMemoryDB"] = LongTermMemoryCollections}
  /\ serverScheduler \in BOOLEAN
  /\ mongoDocuments = [n \in Range(CollectionNames) |-> <<>>]
  /\ snapshotFiles = <<>>

\* total number of documents in the database
RECURSIVE DocumentCount(_)
DocumentCount(names) ==
  IF names = <<>> THEN 0
  ELSE Len(mongoDocuments[Head(names)]) + DocumentCount(Tail(names))

\* some request inserts a document into a collection
InsertDocument ==
  /\ DocumentCount(CollectionNames) < MaxDocuments
  /\ \E n \in Range(CollectionNames) :
       mongoDocuments' = [mongoDocuments EXCEPT
                            ![n] = Append(@, DocumentCount(CollectionNames) + 1)]
  /\ UNCHANGED <<dbCollections, serverScheduler, snapshotFiles>>
  /\ UNCHANGED <<workerVars, serverVars, schedulerVars, promptVars>>

\* Server.snapshot(name)
Snapshot ==
  /\ Len(snapshotFiles) < MaxSnapshots
  /\ \E name \in SnapshotNames :
       snapshotFiles' = Append(snapshotFiles,
         [fileName |-> snapshotPath(name),
          data |-> mongoSnapshot(snapshotCollections(dbCollections, serverScheduler),
                                 mongoDocuments),
          documents |-> mongoDocuments])
  /\ UNCHANGED <<dbCollections, serverScheduler, mongoDocuments>>
  /\ UNCHANGED <<workerVars, serverVars, schedulerVars, promptVars>>

Init == WorkerInit /\ ServerInit /\ SchedulerInit /\ PromptInit /\ SnapshotInit

\* ----------------------------------------------------------------------
\* Macrotasks: external calls and completions
\* ----------------------------------------------------------------------
\* the inputs of the work() calls explored, as the types of their elements
InputLists == {<<>>, <<"text">>, <<"text", "image">>}

\* variant: only the emptiness of the inputs is tested
validInputs_NonEmpty(inputs) == inputs # <<>>

\* the tests at the head of work (lines 150-157); work throws when they fail
validInputs(inputs) ==
  /\ inputs # <<>>
  /\ \A n \in DOMAIN inputs : inputs[n] = "text"

\* ActorWorker.work(inputs), up to its first await.  The accepted calls are
\* numbered, and the text of an input is modelled by the number of its call.
Work ==
  /\ mq = <<>>
  /\ \E inputs \in InputLists :
       IF validInputs(inputs)
       THEN /\ nWork < MaxInputs
            /\ LET i == nWork + 1
                   message == bufferMessageFromUser(i)
                   s0 == emitEvent([S EXCEPT !.lastInputs = inputs], [kind |-> "message", run |-> 0,
                                       msg |-> "Received input", reply |-> 0])
                   s1 == [s0 EXCEPT !.queue = Append(@, message),
                                    !.nWork = i,
                                    !.calls = @ \cup {[id |-> i, at |-> currentStatus,
                                                        run |-> currentRunPromise]}]
                   s2 == enqueueBufferWrite(s1, message)
                   s3 == IF isBusy(s2) THEN abortCurrentRun(s2, i) ELSE processQueue(s2, i)
               IN Commit([s3 EXCEPT !.lastCall = [id |-> i, at |-> currentStatus,
                                                  run |-> currentRunPromise,
                                                  abortSet |-> s3.abortRequested,
                                                  launched |-> Len(runs)]])
       ELSE Commit([S EXCEPT !.lastInputs = inputs])

\* the LLM provider answers a generate call
LLMOutcomes ==
  {[kind |-> "response", toolCalls |-> tc] : tc \in ToolCallLists}
    \cup {[kind |-> k, toolCalls |-> <<>>] : k \in {"abortError", "retryExhausted", "error"}}

\* failures in an outcome: an error, or a call of a tool that does not exist
Faulty(o) ==
  IF o.kind # "response" THEN 1
  ELSE Cardinality({n \in DOMAIN o.toolCalls : o.toolCalls[n] \notin KnownTools})

Fail(s, n) == [s EXCEPT !.faults = @ + n]

LLMRespond ==
  /\ mq = <<>>
  /\ \E c \in llmCalls : \E o \in LLMOutcomes :
       /\ c.cancelled => o.kind = "abortError"
       /\ c.cancelled \/ faults + Faulty(o) <= MaxFaults
       /\ Commit(Push([Fail(S, IF c.cancelled THEN 0 ELSE Faulty(o))
                          EXCEPT !.llmCalls = @ \ {c}],
                      Job("LoopAfterLLM", 0, c.run, c.step, o.toolCalls, o.kind)))

\* a tool execution settles: success, a failure result, or a throw (caught
\* and packaged as a failure result)
ToolDone ==
  /\ mq = <<>>
  /\ \E c \in toolExecs : \E ok \in BOOLEAN :
       /\ ok \/ faults < MaxFaults
       /\ Commit(Push([Fail(S, IF ok THEN 0 ELSE 1)
                          EXCEPT !.toolExecs = @ \ {c},
                                 !.runs[c.run].toolFailures = @ + (IF ok THEN 0 ELSE 1)],
                   Job("LoopAfterTool", 0, c.run, c.step, c.toolCalls, ok)))

\* the conversation store answers listConversationMessages
DbReadDone ==
  /\ mq = <<>>
  /\ \E c \in dbReads : \E ok \in BOOLEAN :
       /\ ok \/ faults < MaxFaults
       /\ Commit(Push([Fail(S, IF ok THEN 0 ELSE 1) EXCEPT !.dbReads = @ \ {c}],
                   Job("PqAfterPrompt", c.call, 0, 0, c.batch,
                       IF ok THEN <<"ok", LastN(store, BufferWindow)>> ELSE <<"error", <<>>>>)))

\* the conversation store answers addConversationMessage
DbWriteDone ==
  /\ mq = <<>>
  /\ \E w \in dbWrites : \E ok \in BOOLEAN :
       /\ ok \/ faults < MaxFaults
       /\ LET s1 == [Fail(S, IF ok THEN 0 ELSE 1)
                       EXCEPT !.dbWrites = @ \ {w},
                              !.store = IF ok THEN Append(@, w.msg) ELSE @]
          IN Commit(IF w.chained
                    THEN NextLink([s1 EXCEPT !.bufferWritePromise.rejected = ~ok])
                    ELSE s1)

\* ----------------------------------------------------------------------
\* Microtasks
\* ----------------------------------------------------------------------
Next1(k) == mq # <<>> /\ Head(mq).k = k
Rest == [S EXCEPT !.mq = Tail(@)]

\* one link of the bufferWritePromise chain: .then(() => addBuffer(message))
\* runs only on a fulfilled predecessor; .catch logs and rethrows
BufLink ==
  /\ Next1("BufLink")
  /\ LET message == Head(bufferWritePromise.links)
         s1 == [Rest EXCEPT !.bufferWritePromise.links = Tail(@)]
     IN Commit(IF bufferWritePromise.rejected THEN NextLink(s1) ELSE addBuffer(s1, message))

\* processQueue after `await this.buildSystemPrompt(...)`
PqAfterPrompt ==
  /\ Next1("PqAfterPrompt")
  /\ LET j == Head(mq)
     IN IF j.y[1] = "ok"
        THEN LET st == Len(heap) + 1
                 s1 == [Rest EXCEPT !.heap = Append(@, buildAgentState(Rest, j.y[2], j.x)),
                                    !.agentState = st]
             IN Commit(Launch(s1, j.call, j.x))
        ELSE Commit(ExitQueue(Rest, j.call))

\* processQueue after `await this.currentRunPromise`: the inner finally, then
\* the next iteration
PqAfterRun ==
  /\ Next1("PqAfterRun")
  /\ Commit(QueueLoop(afterRun(Rest), Head(mq).call))

\* abortCurrentRun after `await this.agent.abort()`
AcrAfterAbort ==
  /\ Next1("AcrAfterAbort")
  /\ Commit(acrAwaitRun(Rest, Head(mq).call))

\* abortCurrentRun after `await this.currentRunPromise`: return to work()
AcrAfterRun ==
  /\ Next1("AcrAfterRun")
  /\ Commit(Push(Rest, Job("WorkAfterAbort", Head(mq).call, 0, 0, <<>>, <<>>)))

\* work() after `await this.abortCurrentRun()` (lines 174-175)
WorkAfterAbort ==
  /\ Next1("WorkAfterAbort")
  /\ Commit(WorkReturns([Rest EXCEPT !.resumeStateAfterAbort = ~Rest.hasEmaReplyInRun],
                        Head(mq).call))

\* the catch block of lines 256-273 notes how generate failed, the LLM calls
\* made and the messages held at that moment
llmFailure(s, r, kind) ==
  [s EXCEPT !.runs[r].llmFailed = (kind = "error"),
            !.runs[r].retryExhausted = (kind = "retryExhausted"),
            !.runs[r].failLlm = s.runs[r].llm,
            !.runs[r].failLen = Len(s.heap[s.runs[r].state].messages)]

\* variant: RetryExhaustedError is handled like any other error
catchRetryExhausted_Silent(s, r) ==
  ReturnFromLoop(llmFailure(s, r, "retryExhausted"), r)

\* lines 260-269: emit runFinished{ok: false, msg, error} and return
catchRetryExhausted(s, r) ==
  ReturnFromLoop(AgentEmit(llmFailure(s, r, "retryExhausted"), r,
                           "runFinished", "retryExhausted", 0), r)

\* variant: the loop goes on with the next step after the failure
catchOther_Continue(s, r, step) ==
  LoopHead(llmFailure(s, r, "error"), r, step + 1)

\* lines 271-272: log `LLM call failed` and return
catchOther(s, r, step) ==
  ReturnFromLoop(llmFailure(s, r, "error"), r)

\* mainLoop after `await this.llm.generate(...)` (lines 255-294)
LoopAfterLLM ==
  /\ Next1("LoopAfterLLM")
  /\ LET j == Head(mq)
         r == j.run
     IN Commit(
          IF j.y = "abortError" THEN ReturnFromLoop(finishAborted(Rest, r), r)
          ELSE IF j.y = "retryExhausted"
               THEN catchRetryExhausted(Rest, r)
          ELSE IF j.y = "error"
               THEN catchOther(Rest, r, j.step)
          ELSE IF Rest.abortRequested THEN ReturnFromLoop(finishAborted(Rest, r), r)
          ELSE LET s1 == addModelMessage(Rest, r, j.x)
               IN IF j.x = <<>>
                  THEN ReturnFromLoop(AgentEmit(s1, r, "runFinished", "ok", 0), r)
                  ELSE ToolLoop(s1, r, j.step, j.x))

\* mainLoop after `await tool.execute(...)` (lines 318-347)
LoopAfterTool ==
  /\ Next1("LoopAfterTool")
  /\ LET j == Head(mq)
     IN Commit(ToolLoop(AfterTool(Rest, j.run, Head(j.x), j.y), j.run, j.step, Tail(j.x)))

\* Agent.run: the finally block, and the run promise resolves
RunFinally ==
  /\ Next1("RunFinally")
  /\ LET r == Head(mq).run
         s1 == [Rest EXCEPT !.status = "idle", !.abortController = "null",
                            !.runs[r].done = TRUE, !.runs[r].reactions = <<>>,
                            !.runs[r].endLen = Len(heap[runs[r].state].messages)]
     IN Commit([s1 EXCEPT !.mq = @ \o runs[r].reactions])

Next ==
  \/ Work
  \/ LLMRespond
  \/ ToolDone
  \/ DbReadDone
  \/ DbWriteDone
  \/ BufLink
  \/ PqAfterPrompt
  \/ PqAfterRun
  \/ AcrAfterAbort
  \/ AcrAfterRun
  \/ WorkAfterAbort
  \/ LoopAfterLLM
  \/ LoopAfterTool
  \/ RunFinally

Spec == Init /\ [][Next]_vars

\* ----------------------------------------------------------------------
\* Server.getActor
\* ----------------------------------------------------------------------
workerVarsButMq ==
  <<currentStatus, agentState, queue, hasEmaReplyInRun, currentRunPromise,
    processingQueue, resumeStateAfterAbort, bufferWritePromise,
    status, abortController, abortRequested, contextState,
    heap, runs, llmCalls, toolExecs, dbReads, dbWrites, store,
    delivered, nEnq, nWork, calls, lastCall, lastReturn, pqActive,
    lastInputs, statusTransitions, faults>>

Settled(creation) == creation.pc \in {"done", "failed"}

\* variant: the in-flight table is not consulted
lookupInFlight_Miss(inFlightMap, key) == 0

\* this.actorInFlight.get(key)
lookupInFlight(inFlightMap, key) == inFlightMap[key]

\* variant: the marker is left in the table
releaseInFlight_Keep(inFlightMap, key) == inFlightMap

\* variant: the finally block clears the whole table
releaseInFlight_Clear(inFlightMap, key) == [k \in DOMAIN inFlightMap |-> 0]

\* this.actorInFlight.delete(key)
releaseInFlight(inFlightMap, key) == [inFlightMap EXCEPT ![key] = 0]

\* the creation promise settles: its reactions (the waiting getActor calls)
\* are queued in registration order
Settle(c, pc, worker) ==
  /\ creations' = [creations EXCEPT ![c].pc = pc, ![c].worker = worker,
                                    ![c].reactions = <<>>]
  /\ mq' = Tail(mq) \o [n \in DOMAIN creations[c].reactions |->
                          Job("GetAfterCreate", creations[c].reactions[n], c, 0, <<>>, <<>>)]

\* getActor up to `await inFlight` (lines 266-300), or to `return actor` when
\* the worker exists
GetActor ==
  /\ mq = <<>>
  /\ Len(gets) < MaxGets
  /\ \E sc \in Scopes :
       LET key == actorKey(sc[1], sc[2], sc[3])
           i == Len(gets) + 1
           actor == actors[key]
           inFlight == lookupInFlight(actorInFlight, key)
           c == Len(creations) + 1
           get == [key |-> key, creation |-> 0, started |-> FALSE, outcome |-> "waiting",
                   worker |-> 0,
                   mustStart |-> /\ actor = 0
                                 /\ \A n \in DOMAIN creations :
                                      creations[n].key = key => Settled(creations[n])]
       IN IF actor # 0
          THEN /\ gets' = Append(gets, [get EXCEPT !.outcome = "ok", !.worker = actor])
               /\ UNCHANGED <<actors, actorInFlight, creations, workers, mq>>
          ELSE IF inFlight = 0
          THEN /\ creations' = Append(creations, [key |-> key, pc |-> "getUser",
                                                  reactions |-> <<i>>, worker |-> 0])
               /\ actorInFlight' = [actorInFlight EXCEPT ![key] = c]
               /\ gets' = Append(gets, [get EXCEPT !.creation = c, !.started = TRUE])
               /\ UNCHANGED <<actors, workers, mq>>
          ELSE /\ gets' = Append(gets, [get EXCEPT !.creation = inFlight])
               /\ IF Settled(creations[inFlight])
                  THEN /\ mq' = Append(mq, Job("GetAfterCreate", i, inFlight, 0, <<>>, <<>>))
                       /\ UNCHANGED creations
                  ELSE /\ creations' = [creations EXCEPT ![inFlight].reactions = Append(@, i)]
                       /\ UNCHANGED mq
               /\ UNCHANGED <<actors, actorInFlight, workers>>
  /\ UNCHANGED workerVarsButMq
  /\ UNCHANGED <<schedulerVars, promptVars, snapshotVars>>

\* the user store answers getUser
DbUserDone ==
  /\ mq = <<>>
  /\ \E c \in DOMAIN creations : \E ok \in BOOLEAN :
       /\ creations[c].pc = "getUser"
       /\ creations' = [creations EXCEPT ![c].pc = "afterUser"]
       /\ mq' = Append(mq, Job("CreateAfterUser", 0, c, 0, <<>>, ok))
  /\ UNCHANGED <<actors, actorInFlight, workers, gets>>
  /\ UNCHANGED workerVarsButMq
  /\ UNCHANGED <<schedulerVars, promptVars, snapshotVars>>

\* the creation after `await this.userDB.getUser(userId)`: upsertConversation
\* is requested, or the creation fails
CreateAfterUser ==
  /\ Next1("CreateAfterUser")
  /\ LET c == Head(mq).run
     IN IF Head(mq).y
        THEN /\ creations' = [creations EXCEPT ![c].pc = "upsert"]
             /\ mq' = Tail(mq)
        ELSE Settle(c, "failed", 0)
  /\ UNCHANGED <<actors, actorInFlight, workers, gets>>
  /\ UNCHANGED workerVarsButMq
  /\ UNCHANGED <<schedulerVars, promptVars, snapshotVars>>

\* the conversation store answers upsertConversation
DbUpsertDone ==
  /\ mq = <<>>
  /\ \E c \in DOMAIN creations : \E ok \in BOOLEAN :
       /\ creations[c].pc = "upsert"
       /\ creations' = [creations EXCEPT ![c].pc = "afterUpsert"]
       /\ mq' = Append(mq, Job("CreateAfterUpsert", 0, c, 0, <<>>, ok))
  /\ UNCHANGED <<actors, actorInFlight, workers, gets>>
  /\ UNCHANGED workerVarsButMq
  /\ UNCHANGED <<schedulerVars, promptVars, snapshotVars>>

\* the creation after `await this.conversationDB.upsertConversation(...)`:
\* new ActorWorker, this.actors.set(key, created), return created
CreateAfterUpsert ==
  /\ Next1("CreateAfterUpsert")
  /\ LET c == Head(mq).run
         created == Len(workers) + 1
     IN IF Head(mq).y
        THEN /\ workers' = Append(workers, creations[c].key)
             /\ actors' = [actors EXCEPT ![creations[c].key] = created]
             /\ Settle(c, "done", created)
        ELSE /\ Settle(c, "failed", 0)
             /\ UNCHANGED <<actors, workers>>
  /\ UNCHANGED <<actorInFlight, gets>>
  /\ UNCHANGED workerVarsButMq
  /\ UNCHANGED <<schedulerVars, promptVars, snapshotVars>>

\* getActor after `await inFlight`: the finally block, then return or throw
GetAfterCreate ==
  /\ Next1("GetAfterCreate")
  /\ LET i == Head(mq).call
         c == Head(mq).run
     IN /\ actorInFlight' = releaseInFlight(actorInFlight, gets[i].key)
        /\ gets' = [gets EXCEPT ![i].outcome = IF creations[c].pc = "done" THEN "ok"
                                               ELSE "failed",
                                ![i].worker = creations[c].worker]
  /\ mq' = Tail(mq)
  /\ UNCHANGED <<actors, creations, workers>>
  /\ UNCHANGED workerVarsButMq
  /\ UNCHANGED <<schedulerVars, promptVars, snapshotVars>>

ServerNext ==
  \/ GetActor
  \/ DbUserDone
  \/ DbUpsertDone
  \/ CreateAfterUser
  \/ CreateAfterUpsert
  \/ GetAfterCreate

SpecServer == Init /\ [][ServerNext]_vars

\* Scheduling of the worker: every microtask runs (the event loop drains the
\* microtask queue), and every request made to the LLM, a tool or the
\* conversation store settles.  work() calls are the environment's choice.
Fairness ==
  /\ WF_vars(LLMRespond) /\ WF_vars(ToolDone)
  /\ WF_vars(DbReadDone) /\ WF_vars(DbWriteDone)
  /\ WF_vars(BufLink) /\ WF_vars(PqAfterPrompt) /\ WF_vars(PqAfterRun)
  /\ WF_vars(AcrAfterAbort) /\ WF_vars(AcrAfterRun) /\ WF_vars(WorkAfterAbort)
  /\ WF_vars(LoopAfterLLM) /\ WF_vars(LoopAfterTool) /\ WF_vars(RunFinally)

FairSpec == Spec /\ Fairness

\* ======================================================================
\* AgendaScheduler (scheduler.ts)
\* ======================================================================
\* The scheduler forwards every operation to Agenda.  Each `await` of the
\* wrapper waits for one Agenda request; the action named After... is the
\* moment that request settles, followed by the wrapper's code up to its next
\* await or its return.  Agenda's job processor is the environment: while it
\* is started it may lock any due document whose name is defined and run the
\* handler, at any moment between two steps of the wrapper.
MaxJobs == 2             \* documents created by schedule()
MaxSchedulerCalls == 4   \* calls of the scheduler explored
MaxTime == 1             \* ticks of the clock explored
MaxReschedules == 1      \* calls of reschedule and rescheduleEvery explored

JobNames == {"test"}
JobData == {"old", "new"}
\* JobEverySpec.interval, in ticks
Intervals == {1}
HandlerMaps == {{"test"}}
JobIds == 1..MaxJobs
RunAts == 0..MaxTime
\* attrs.nextRunAt of a one-shot job that has run
NoDate == MaxTime + 1

\* the document agenda.schedule(new Date(runAt), name, data) saves.  `runAt`
\* is the runAt last given for the job and `repeatInterval` its interval (0
\* for a one-shot job); `running`, `runs`, `delivered` and `firedEarly` follow
\* the handler: running or not, number of invocations, the data given to
\* the last one, and whether one was made before `runAt`
JobDocument(name, runAt, data) ==
  [name |-> name, data |-> data, runAt |-> runAt, nextRunAt |-> runAt,
   repeatInterval |-> 0, running |-> FALSE, runs |-> 0, persisted |-> TRUE,
   delivered |-> "none", firedEarly |-> FALSE]

\* a call of the scheduler: `pc` is the request it waits for ("done" once it
\* has returned); `existed` and `wasRunning` are the state of the job at the
\* moment of the last request of the call, `runsAtReturn` the handler
\* invocations of the job made up to then, `rejected` whether a request of
\* the call was rejected; `data`, `runAt` and `interval` are the job spec
\* given to reschedule and rescheduleEvery, `defined` the names defined in
\* Agenda when start was called
SchedulerCall(op, id, pc, result) ==
  [op |-> op, id |-> id, pc |-> pc, result |-> result,
   existed |-> FALSE, wasRunning |-> FALSE, runsAtReturn |-> 0,
   rejected |-> FALSE,
   data |-> "none", runAt |-> 0, interval |-> 0, defined |-> {}]

Returns(c, result, jobs) ==
  LET there == c.id \in DOMAIN jobs
  IN [c EXCEPT !.pc = "done", !.result = result,
               !.existed = there /\ jobs[c.id].persisted,
               !.wasRunning = there /\ jobs[c.id].running,
               !.runsAtReturn = IF there THEN jobs[c.id].runs ELSE 0]

Waiting(op, pc) ==
  {i \in DOMAIN schedulerCalls : schedulerCalls[i].op = op /\ schedulerCalls[i].pc = pc}

\* registerHandlers: agenda.define(name, handler) for every name of the map
registerHandlers(definitions, handlers) == definitions \cup handlers

\* loadJob: the job getForkedJob(id) resolves to (its id), or null (0) when
\* it rejects: there is no such document, or the request fails
loadJob(jobs, id, ok) ==
  IF ok /\ id \in DOMAIN jobs /\ jobs[id].persisted THEN id ELSE 0

\* isRunning: the answer of job.isRunning(), or false when it rejects
isRunning(jobs, id, ok) ==
  IF ok /\ jobs[id].persisted THEN jobs[id].running ELSE FALSE

\* job.remove(): the number of documents deleted
remove(jobs, id) == IF jobs[id].persisted THEN 1 ELSE 0

\* start(handlers) up to `await this.agenda.start()`
Start ==
  /\ Len(schedulerCalls) < MaxSchedulerCalls
  /\ \E handlers \in HandlerMaps :
       IF schedulerStatus # "idle"
       THEN /\ schedulerCalls' = Append(schedulerCalls,
                 [SchedulerCall("start", 0, "done", "noop")
                    EXCEPT !.defined = agendaDefinitions])
            /\ UNCHANGED <<schedulerStatus, agendaDefinitions>>
       ELSE /\ agendaDefinitions' = registerHandlers(agendaDefinitions, handlers)
            /\ schedulerStatus' = "running"
            /\ schedulerCalls' = Append(schedulerCalls,
                 [SchedulerCall("start", 0, "agendaStart", "pending")
                    EXCEPT !.defined = agendaDefinitions])
  /\ UNCHANGED <<agendaStarted, agendaJobs, clock>>
  /\ UNCHANGED <<workerVars, serverVars, promptVars, snapshotVars>>

\* agenda.start() settles: the processor runs and start returns, or the
\* catch block sets the status back to idle and rethrows
StartAfterAgendaStart ==
  /\ \E i \in Waiting("start", "agendaStart") : \E ok \in BOOLEAN :
       IF ok
       THEN /\ agendaStarted' = TRUE
            /\ schedulerCalls' = [schedulerCalls EXCEPT ![i].pc = "done", ![i].result = "void"]
            /\ UNCHANGED schedulerStatus
       ELSE /\ schedulerStatus' = "idle"
            /\ schedulerCalls' = [schedulerCalls EXCEPT ![i].pc = "done", ![i].result = "threw"]
            /\ UNCHANGED agendaStarted
  /\ UNCHANGED <<agendaDefinitions, agendaJobs, clock>>
  /\ UNCHANGED <<workerVars, serverVars, promptVars, snapshotVars>>

\* stop() up to `await this.agenda.stop()`
Stop ==
  /\ Len(schedulerCalls) < MaxSchedulerCalls
  /\ IF schedulerStatus = "idle"
     THEN /\ schedulerCalls' = Append(schedulerCalls, SchedulerCall("stop", 0, "done", "void"))
          /\ UNCHANGED schedulerStatus
     ELSE /\ schedulerStatus' = "stopping"
          /\ schedulerCalls' = Append(schedulerCalls, SchedulerCall("stop", 0, "agendaStop", "pending"))
  /\ UNCHANGED <<agendaDefinitions, agendaStarted, agendaJobs, clock>>
  /\ UNCHANGED <<workerVars, serverVars, promptVars, snapshotVars>>

\* without the finally block a failed agenda.stop() leaves the status as it is
StopAfterAgendaStop_NoFinally ==
  /\ \E i \in Waiting("stop", "agendaStop") : \E ok \in BOOLEAN :
       /\ agendaStarted' = IF ok THEN FALSE ELSE agendaStarted
       /\ schedulerStatus' = IF ok THEN "idle" ELSE schedulerStatus
       /\ schedulerCalls' = [schedulerCalls EXCEPT ![i].pc = "done",
                                                   ![i].result = IF ok THEN "void" ELSE "threw"]
  /\ UNCHANGED <<agendaDefinitions, agendaJobs, clock>>
  /\ UNCHANGED <<workerVars, serverVars, promptVars, snapshotVars>>

\* agenda.stop() settles: the processor is stopped, or the request fails; the
\* finally block sets the status to idle either way
StopAfterAgendaStop ==
  /\ \E i \in Waiting("stop", "agendaStop") : \E ok \in BOOLEAN :
       /\ agendaStarted' = IF ok THEN FALSE ELSE agendaStarted
       /\ schedulerStatus' = "idle"
       /\ schedulerCalls' = [schedulerCalls EXCEPT ![i].pc = "done",
                                                   ![i].result = IF ok THEN "void" ELSE "threw"]
  /\ UNCHANGED <<agendaDefinitions, agendaJobs, clock>>
  /\ UNCHANGED <<workerVars, serverVars, promptVars, snapshotVars>>

\* schedule(job): agenda.schedule saves a new document, its id is returned
Schedule ==
  /\ Len(schedulerCalls) < MaxSchedulerCalls
  /\ Len(agendaJobs) < MaxJobs
  /\ \E name \in JobNames : \E runAt \in RunAts : \E data \in JobData :
       LET jobs == Append(agendaJobs, JobDocument(name, runAt, data))
           id == Len(jobs)
       IN /\ agendaJobs' = jobs
          /\ schedulerCalls' = Append(schedulerCalls,
                                      Returns(SchedulerCall("schedule", id, "done", "id"), "id", jobs))
  /\ UNCHANGED <<schedulerStatus, agendaDefinitions, agendaStarted, clock>>
  /\ UNCHANGED <<workerVars, serverVars, promptVars, snapshotVars>>

\* cancel(id) up to `await this.loadJob(id)`
Cancel ==
  /\ Len(schedulerCalls) < MaxSchedulerCalls
  /\ \E id \in JobIds :
       schedulerCalls' = Append(schedulerCalls, SchedulerCall("cancel", id, "loadJob", "pending"))
  /\ UNCHANGED <<schedulerStatus, agendaDefinitions, agendaStarted, agendaJobs, clock>>
  /\ UNCHANGED <<workerVars, serverVars, promptVars, snapshotVars>>

\* cancel after loadJob: return false without a job, else `await
\* this.isRunning(agendaJob)`
CancelAfterLoadJob ==
  /\ \E i \in Waiting("cancel", "loadJob") : \E ok \in BOOLEAN :
       LET c == schedulerCalls[i]
       IN schedulerCalls' =
            [schedulerCalls EXCEPT ![i] =
               IF loadJob(agendaJobs, c.id, ok) = 0
               THEN Returns([c EXCEPT !.rejected = ~ok], "false", agendaJobs)
               ELSE [c EXCEPT !.pc = "isRunning"]]
  /\ UNCHANGED <<schedulerStatus, agendaDefinitions, agendaStarted, agendaJobs, clock>>
  /\ UNCHANGED <<workerVars, serverVars, promptVars, snapshotVars>>

\* cancel after isRunning: return false for a running job, else `await
\* agendaJob.remove()`
CancelAfterIsRunning ==
  /\ \E i \in Waiting("cancel", "isRunning") : \E ok \in BOOLEAN :
       LET c == schedulerCalls[i]
       IN schedulerCalls' =
            [schedulerCalls EXCEPT ![i] =
               IF isRunning(agendaJobs, c.id, ok)
               THEN Returns(c, "false", agendaJobs)
               ELSE [c EXCEPT !.pc = "remove", !.rejected = ~ok]]
  /\ UNCHANGED <<schedulerStatus, agendaDefinitions, agendaStarted, agendaJobs, clock>>
  /\ UNCHANGED <<workerVars, serverVars, promptVars, snapshotVars>>

\* cancel after remove: the document is deleted, `return removed > 0`
CancelAfterRemove ==
  /\ \E i \in Waiting("cancel", "remove") :
       LET c == schedulerCalls[i]
           removed == remove(agendaJobs, c.id)
       IN /\ schedulerCalls' =
               [schedulerCalls EXCEPT ![i] =
                  Returns(c, IF removed > 0 THEN "true" ELSE "false", agendaJobs)]
          /\ agendaJobs' = [agendaJobs EXCEPT ![c.id].persisted = FALSE]
  /\ UNCHANGED <<schedulerStatus, agendaDefinitions, agendaStarted, clock>>
  /\ UNCHANGED <<workerVars, serverVars, promptVars, snapshotVars>>

\* attrs.nextRunAt of a recurring job after a run that ended at `now`
repeatNextRunAt(now, interval) ==
  IF now + interval < NoDate THEN now + interval ELSE NoDate

\* without schedule(runAt) and skipImmediate the job is due at once
everyNextRunAt_Immediate(runAt, interval) == 0

\* attrs.nextRunAt after schedule(new Date(runAt)) followed by
\* repeatEvery(interval, {skipImmediate: true}): one interval after runAt
everyNextRunAt(runAt, interval) ==
  IF runAt + interval < NoDate THEN runAt + interval ELSE NoDate

\* the documents the query of unique(job.unique) matches; the unique keys
\* explored select on name and data, as the callers' keys do
uniqueMatches(jobs, name, data) ==
  {id \in DOMAIN jobs : jobs[id].persisted /\ jobs[id].name = name /\ jobs[id].data = data}

\* scheduleEvery(job): agendaJob.save() with a unique query updates the
\* document the query matches, or inserts one; its id is returned
ScheduleEvery ==
  /\ Len(schedulerCalls) < MaxSchedulerCalls
  /\ \E name \in JobNames : \E runAt \in RunAts : \E data \in JobData :
     \E interval \in Intervals :
       LET matches == uniqueMatches(agendaJobs, name, data)
           id == IF matches = {} THEN Len(agendaJobs) + 1
                 ELSE CHOOSE m \in matches : \A n \in matches : m <= n
           fresh == [JobDocument(name, runAt, data)
                       EXCEPT !.nextRunAt = everyNextRunAt(runAt, interval),
                              !.repeatInterval = interval]
           jobs == IF matches = {}
                   THEN Append(agendaJobs, fresh)
                   ELSE [agendaJobs EXCEPT ![id].runAt = runAt,
                                           ![id].nextRunAt = everyNextRunAt(runAt, interval),
                                           ![id].repeatInterval = interval]
       IN /\ matches = {} => Len(agendaJobs) < MaxJobs
          /\ agendaJobs' = jobs
          /\ schedulerCalls' = Append(schedulerCalls,
               Returns([SchedulerCall("scheduleEvery", id, "done", "id")
                          EXCEPT !.data = data, !.runAt = runAt, !.interval = interval],
                       "id", jobs))
  /\ UNCHANGED <<schedulerStatus, agendaDefinitions, agendaStarted, clock>>
  /\ UNCHANGED <<workerVars, serverVars, promptVars, snapshotVars>>

RescheduleOps == {"reschedule", "rescheduleEvery"}

Reschedules == {i \in DOMAIN schedulerCalls : schedulerCalls[i].op \in RescheduleOps}

WaitingReschedule(pc) == UNION {Waiting(op, pc) : op \in RescheduleOps}

\* reschedule(id, job) and rescheduleEvery(id, job) up to `await
\* this.loadJob(id)`
Reschedule ==
  /\ Len(schedulerCalls) < MaxSchedulerCalls
  /\ Cardinality(Reschedules) < MaxReschedules
  /\ \E op \in RescheduleOps : \E id \in JobIds : \E runAt \in RunAts :
     \E data \in JobData : \E interval \in Intervals :
       schedulerCalls' = Append(schedulerCalls,
         [SchedulerCall(op, id, "loadJob", "pending")
            EXCEPT !.data = data, !.runAt = runAt,
                   !.interval = IF op = "rescheduleEvery" THEN interval ELSE 0])
  /\ UNCHANGED <<schedulerStatus, agendaDefinitions, agendaStarted, agendaJobs, clock>>
  /\ UNCHANGED <<workerVars, serverVars, promptVars, snapshotVars>>

\* after loadJob: return false without a job, else `await
\* this.isRunning(agendaJob)`
RescheduleAfterLoadJob ==
  /\ \E i \in WaitingReschedule("loadJob") : \E ok \in BOOLEAN :
       LET c == schedulerCalls[i]
       IN schedulerCalls' =
            [schedulerCalls EXCEPT ![i] =
               IF loadJob(agendaJobs, c.id, ok) = 0
               THEN Returns([c EXCEPT !.rejected = ~ok], "false", agendaJobs)
               ELSE [c EXCEPT !.pc = "isRunning"]]
  /\ UNCHANGED <<schedulerStatus, agendaDefinitions, agendaStarted, agendaJobs, clock>>
  /\ UNCHANGED <<workerVars, serverVars, promptVars, snapshotVars>>

\* after isRunning: return false for a running job; else the attrs are set
\* and `await agendaJob.save()`
RescheduleAfterIsRunning ==
  /\ \E i \in WaitingReschedule("isRunning") : \E ok \in BOOLEAN :
       LET c == schedulerCalls[i]
       IN schedulerCalls' =
            [schedulerCalls EXCEPT ![i] =
               IF isRunning(agendaJobs, c.id, ok)
               THEN Returns(c, "false", agendaJobs)
               ELSE [c EXCEPT !.pc = "save", !.rejected = ~ok]]
  /\ UNCHANGED <<schedulerStatus, agendaDefinitions, agendaStarted, agendaJobs, clock>>
  /\ UNCHANGED <<workerVars, serverVars, promptVars, snapshotVars>>

\* the attrs reschedule (interval 0) and rescheduleEvery write to the
\* document: name, data, nextRunAt, and for rescheduleEvery repeatInterval
rescheduled(job, name, data, runAt, interval) ==
  [job EXCEPT !.name = name, !.data = data, !.runAt = runAt,
              !.nextRunAt = IF interval = 0 THEN runAt
                            ELSE everyNextRunAt(runAt, interval),
              !.repeatInterval = IF interval = 0 THEN @ ELSE interval]

\* after save: the document is overwritten and true is returned; save
\* rejects, and the call with it, when the document is gone or the request
\* fails
RescheduleAfterSave ==
  /\ \E i \in WaitingReschedule("save") : \E ok \in BOOLEAN : \E name \in JobNames :
       LET c == schedulerCalls[i]
       IN IF ok /\ agendaJobs[c.id].persisted
          THEN /\ schedulerCalls' = [schedulerCalls EXCEPT ![i] = Returns(c, "true", agendaJobs)]
               /\ agendaJobs' = [agendaJobs EXCEPT ![c.id] =
                                   rescheduled(@, name, c.data, c.runAt, c.interval)]
          ELSE /\ schedulerCalls' = [schedulerCalls EXCEPT ![i] =
                                       Returns([c EXCEPT !.rejected = TRUE], "threw", agendaJobs)]
               /\ UNCHANGED agendaJobs
  /\ UNCHANGED <<schedulerStatus, agendaDefinitions, agendaStarted, clock>>
  /\ UNCHANGED <<workerVars, serverVars, promptVars, snapshotVars>>

\* the job processor locks a due job whose name is defined and invokes the
\* handler given to agenda.define
JobStart ==
  /\ agendaStarted
  /\ \E id \in DOMAIN agendaJobs :
       /\ agendaJobs[id].persisted /\ ~agendaJobs[id].running
       /\ agendaJobs[id].name \in agendaDefinitions
       /\ agendaJobs[id].nextRunAt <= clock
       /\ agendaJobs' = [agendaJobs EXCEPT ![id].running = TRUE, ![id].runs = @ + 1,
                                           ![id].delivered = agendaJobs[id].data,
                                           ![id].firedEarly = @ \/ clock < agendaJobs[id].runAt]
  /\ UNCHANGED <<schedulerStatus, agendaDefinitions, agendaStarted, schedulerCalls, clock>>
  /\ UNCHANGED <<workerVars, serverVars, promptVars, snapshotVars>>

\* the handler returns: a one-shot job has no next run, a recurring job
\* runs again one interval later
JobFinish ==
  /\ \E id \in DOMAIN agendaJobs :
       /\ agendaJobs[id].running
       /\ agendaJobs' = [agendaJobs EXCEPT
            ![id].running = FALSE,
            ![id].nextRunAt = IF agendaJobs[id].repeatInterval = 0 THEN NoDate
                              ELSE repeatNextRunAt(clock, agendaJobs[id].repeatInterval)]
  /\ UNCHANGED <<schedulerStatus, agendaDefinitions, agendaStarted, schedulerCalls, clock>>
  /\ UNCHANGED <<workerVars, serverVars, promptVars, snapshotVars>>

\* time passes
Tick ==
  /\ clock < MaxTime
  /\ clock' = clock + 1
  /\ UNCHANGED <<schedulerStatus, agendaDefinitions, agendaStarted, agendaJobs, schedulerCalls>>
  /\ UNCHANGED <<workerVars, serverVars, promptVars, snapshotVars>>

SchedulerNext ==
  \/ Start
  \/ StartAfterAgendaStart
  \/ Stop
  \/ StopAfterAgendaStop
  \/ Schedule
  \/ Cancel
  \/ CancelAfterLoadJob
  \/ CancelAfterIsRunning
  \/ CancelAfterRemove
  \/ JobStart
  \/ JobFinish
  \/ Tick

SpecScheduler == Init /\ [][SchedulerNext]_vars

\* the scheduler with its operations on one-shot and recurring jobs:
\* schedule, scheduleEvery, reschedule, rescheduleEvery
JobsNext ==
  \/ Start
  \/ StartAfterAgendaStart
  \/ Schedule
  \/ ScheduleEvery
  \/ Reschedule
  \/ RescheduleAfterLoadJob
  \/ RescheduleAfterIsRunning
  \/ RescheduleAfterSave
  \/ JobStart
  \/ JobFinish
  \/ Tick

SpecJobs == Init /\ [][JobsNext]_vars

\* buildSystemPrompt applied to each template and each conversation
PromptNext == BuildSystemPrompt

\* a worker about to build the prompt of some template over some conversation
InitPrompt == WorkerInit /\ ServerInit /\ SchedulerInit /\ PromptInputs /\ SnapshotInit

SpecPrompt == InitPrompt /\ [][PromptNext]_vars

\* snapshots of a database that other requests write to
SnapshotNext ==
  \/ Snapshot
  \/ InsertDocument

\* a server constructed over some declaration of collections
InitSnapshot == WorkerInit /\ ServerInit /\ SchedulerInit /\ PromptInit /\ SnapshotInputs

SpecSnapshot == InitSnapshot /\ [][SnapshotNext]_vars

\* cancel calls that have returned
CancelsReturned ==
  {i \in DOMAIN schedulerCalls :
     schedulerCalls[i].op = "cancel" /\ schedulerCalls[i].pc = "done"}


\* ======================================================================
\* Properties
\* ======================================================================
LastRun == runs[Len(runs)]
Links == bufferWritePromise.links

\* C1: at any instant at most one agent run is in progress and at most one
\* processQueue invocation is active, whenever the work() calls arrive.
C1_MutualExclusion ==
  /\ Cardinality(ActiveRuns(S)) <= 1
  /\ pqActive <= 1

\* C1 witness: a second work() call arrived while the worker was busy, and a
\* run and a processQueue invocation are active.
C1_Witness ==
  /\ nWork >= 2
  /\ lastCall.at \in {"preparing", "running"}
  /\ Cardinality(ActiveRuns(S)) = 1
  /\ pqActive = 1

\* C2 (as claimed): a run that follows a run in which an abort was requested
\* and no reply was emitted runs on the same AgentState object, whose messages
\* at launch are the prior messages followed by the new user messages.
C2_ResumesAfterAbortWithoutReply ==
  \A r \in DOMAIN runs :
     (runs[r].prev.abortReq /\ ~runs[r].prev.replied)
       => (runs[r].state = runs[r].prev.state /\ runs[r].prev.extended)

\* C3: a run that follows a run in which an abort was requested and a reply
\* was emitted runs on a new AgentState object, whose messages at launch are
\* exactly the user messages of the inputs queued since the batch of the
\* aborted run, in order.
C3_FreshStateAfterReply ==
  \A r \in DOMAIN runs :
     (runs[r].prev.abortReq /\ runs[r].prev.replied /\ ~runs[r].done)
       => /\ runs[r].state # runs[r].prev.state
          /\ runs[r].startLen = Len(runs[r].batch)
          /\ SubSeq(heap[runs[r].state].messages, 1, runs[r].startLen)
               = UserMessages(runs[r].batch)
          /\ \A n \in DOMAIN runs[r].batch :
               runs[r].batch[n].contents = runs[r].prev.last + n

\* C3 witness: a run is in progress whose predecessor had emitted a reply and
\* was asked to abort.
C3_Witness ==
  /\ runs # <<>>
  /\ ~LastRun.done
  /\ LastRun.prev.abortReq
  /\ LastRun.prev.replied

\* C4: the conversation store receives the writes in enqueue order: at most
\* one write is in flight, everything enqueued before it is settled, and the
\* stored messages are in enqueue order.
C4_WritesInEnqueueOrder ==
  /\ Cardinality(dbWrites) <= 1
  /\ \A w \in dbWrites :
       /\ \A n \in DOMAIN store : store[n].seq < w.msg.seq
       /\ \A n \in DOMAIN Links : w.msg.seq < Links[n].seq
  /\ \A m, n \in DOMAIN store : m < n => store[m].seq < store[n].seq
  /\ \A m \in DOMAIN store : \A n \in DOMAIN Links : store[m].seq < Links[n].seq
  /\ \A m, n \in DOMAIN Links : m < n => Links[m].seq < Links[n].seq

\* C4 witness: messages of both kinds are stored, one write is in flight and
\* another one waits behind it.
C4_Witness ==
  /\ \E m, n \in DOMAIN store : store[m].kind = "user" /\ store[n].kind = "actor"
  /\ dbWrites # {}
  /\ Links # <<>>

\* C5: every emaReplyReceived event reaches the subscribers after the actor
\* BufferMessage carrying the reply was enqueued into the write pipeline.
C5_ReplyEnqueuedBeforeDelivery ==
  \A n \in DOMAIN delivered :
     delivered[n].kind = "emaReplyReceived" => delivered[n].durable

\* C5 witness: an emaReplyReceived event has been delivered.
C5_Witness ==
  \E n \in DOMAIN delivered : delivered[n].kind = "emaReplyReceived"

\* C8: a work() call made while the status is running leaves the abort flag
\* of the agent set, and returns only after the run then in progress is over.
C8_WorkWhileRunningAbortsAndWaits ==
  /\ lastCall.at = "running" => lastCall.abortSet
  /\ lastReturn.at = "running" => lastReturn.runDone

\* C8 witness: a work() call made while the status was running has returned.
C8_Witness ==
  /\ lastReturn.at = "running"
  /\ lastReturn.run # 0

\* C9 (as claimed): after an abort request no LLM call and no tool execution
\* is started and no model message is appended in that run, and the run ends
\* with exactly the event runFinished "Aborted".
C9_AbortedRunEndsAborted ==
  \A r \in DOMAIN runs :
     /\ ~runs[r].afterAbort
     /\ (runs[r].abortReq /\ runs[r].done) => runs[r].fin = <<"Aborted">>

\* C10 (as claimed): an LLM call or tool execution that is in flight when the
\* abort is requested is cancelled.
C10_AbortReachesInFlightCall ==
  \A c \in llmCalls \cup toolExecs : runs[c.run].abortReq => c.cancelled

\* the input is in the batch of a run that was launched
Handed(i) == \E r \in DOMAIN runs : \E n \in DOMAIN runs[r].batch :
                runs[r].batch[n].contents = i

\* C11 (as claimed): every input accepted by work() is eventually taken from
\* the queue and handed to an agent run as a user message, given that every
\* LLM call and tool execution terminates.
C11_AcceptedInputReachesRun ==
  \A i \in 1..MaxInputs : <>(nWork >= i) => <>Handed(i)

\* the runs that are over and not yet forgotten
EndedRuns == {r \in DOMAIN runs : runs[r].done /\ runs[r].state # 0}

\* C12 (as claimed): every run that has ended has emitted exactly one
\* runFinished event.
C12_ExactlyOneRunFinished ==
  \A r \in EndedRuns : Len(runs[r].fin) = 1

\* C12 (amended): no run emits more than one runFinished event, and a run
\* that has ended has emitted exactly one unless its LLM call failed with an
\* error that is neither a cancellation nor RetryExhaustedError, in which
\* case it has emitted none.
C12_OneRunFinishedUnlessLLMError ==
  /\ \A r \in DOMAIN runs : Len(runs[r].fin) <= 1
  /\ \A r \in EndedRuns : Len(runs[r].fin) = (IF runs[r].llmFailed THEN 0 ELSE 1)

\* C12 witness: a run ended on such an LLM error, without the event.
C12_Witness ==
  \E r \in EndedRuns : runs[r].llmFailed /\ runs[r].fin = <<>>

\* C13: a run performs at most maxSteps LLM generate calls.
C13_AtMostMaxStepsLLMCalls ==
  \A r \in DOMAIN runs : runs[r].llm <= MaxSteps

\* C13 witness: a run has made maxSteps LLM calls and has ended.
C13_Witness ==
  \E r \in EndedRuns : runs[r].llm = MaxSteps

\* the messages the run added to its AgentState
RunMessages(r) ==
  SubSeq(heap[runs[r].state].messages, runs[r].startLen + 1,
         Len(heap[runs[r].state].messages))

\* every LLM call of the run was answered with a response, and every response
\* held tool calls
AllResponsesCallTools(r) ==
  LET msgs == RunMessages(r)
      models == {n \in DOMAIN msgs : msgs[n].role = "model"}
  IN /\ Cardinality(models) = runs[r].llm
     /\ \A n \in models : msgs[n].toolCalls # <<>>

\* the run's messages are its model messages, each followed by one tool
\* message per tool call, in the order of the calls
ToolCallsExecuted(r) ==
  LET msgs == RunMessages(r)
      models == {n \in DOMAIN msgs : msgs[n].role = "model"}
  IN /\ \A n \in models : \A k \in DOMAIN msgs[n].toolCalls :
          /\ n + k \in DOMAIN msgs
          /\ msgs[n + k].role = "tool"
          /\ msgs[n + k].name = msgs[n].toolCalls[k]
     /\ \A m \in DOMAIN msgs \ models :
          \E n \in models : n < m /\ m <= n + Len(msgs[n].toolCalls)

\* C14: a run in which no abort was requested and every LLM response held
\* tool calls ends having made exactly maxSteps LLM calls, with a tool message
\* for every tool call of every response, and with the single event
\* runFinished "Task couldn't be completed after maxSteps steps".
C14_StepLimitRun ==
  \A r \in EndedRuns :
     (~runs[r].abortReq /\ runs[r].state = contextState /\ AllResponsesCallTools(r))
       => /\ runs[r].llm = MaxSteps
          /\ ToolCallsExecuted(r)
          /\ runs[r].fin = <<"steps">>

\* C14 witness: such a run has ended.
C14_Witness ==
  \E r \in EndedRuns :
     /\ ~runs[r].abortReq
     /\ runs[r].state = contextState
     /\ AllResponsesCallTools(r)
     /\ runs[r].llm = MaxSteps

\* C15: a work() call that fails the validation leaves the queue, the status,
\* the AgentState, the resume and reply flags and the write pipeline as they
\* were, delivers no event, requests no abort and starts nothing.
C15_InvalidWorkChangesNothing ==
  [][(/\ lastInputs' # lastInputs
      /\ \/ lastInputs' = <<>>
         \/ \E n \in DOMAIN lastInputs' : lastInputs'[n] # "text")
       => UNCHANGED <<queue, currentStatus, agentState, resumeStateAfterAbort,
                      hasEmaReplyInRun, bufferWritePromise, nEnq, dbWrites, delivered,
                      abortRequested, abortController, currentRunPromise,
                      processingQueue, heap, runs, mq, dbReads, nWork>>]_vars

\* C15 witness: a call was rejected, and a run is in progress.
C15_Witness ==
  /\ lastInputs = <<"text", "image">>
  /\ currentStatus = "running"

\* the status changes the worker may make
StatusChanges ==
  {<<"idle", "preparing">>, <<"preparing", "running">>,
   <<"running", "idle">>, <<"running", "preparing">>}

\* C16: the status changes only from idle to preparing, from preparing to
\* running, from running to idle and from running to preparing; a run is in
\* progress only in status running, which is entered from preparing only.
C16_StatusChanges ==
  /\ statusTransitions \subseteq StatusChanges
  /\ ActiveRuns(S) # {} => currentStatus = "running"

\* C16 witness: all four changes have been made.
C16_Witness ==
  statusTransitions = StatusChanges

\* C17: the worker holds an AgentState only while the run on it is in
\* progress or its completion is not yet handled; in status idle, and from
\* the end of a run to the building of the next state, agentState is null.
C17_NoAgentStateWithoutRun ==
  /\ currentStatus = "idle" => agentState = 0
  /\ agentState # 0 => (currentStatus = "running" /\ currentRunPromise # 0
                          /\ runs[currentRunPromise].state = agentState)

\* C17 witness: a run has ended without a reply after a request to abort it,
\* its completion was handled, and the next state is not yet built.
C17_Witness ==
  /\ currentStatus = "preparing"
  /\ EndedRuns # {}
  /\ \A r \in EndedRuns : runs[r].abortReq /\ ~runs[r].replied
  /\ agentState = 0

C20_CancelTrueIffPending ==
  \A i \in CancelsReturned :
     LET c == schedulerCalls[i]
     IN ~c.rejected =>
          /\ (c.result = "true") <=> (c.existed /\ ~c.wasRunning)
          /\ c.result = "true" =>
               /\ ~agendaJobs[c.id].persisted
               /\ agendaJobs[c.id].runs = c.runsAtReturn

\* reschedule and rescheduleEvery calls that have returned
ReschedulesReturned == {i \in Reschedules : schedulerCalls[i].pc = "done"}

\* C21: reschedule(id, spec) and rescheduleEvery(id, spec) return true
\* exactly when the job exists and is not running, and false otherwise; a
\* firing that follows a call that returned true delivers the data of that
\* call.  The job's existence and running state are taken at the moment of
\* the request that decided the call; only calls none of whose requests was
\* rejected are considered, and the data only where no other reschedule call
\* was made for the job.
C21_RescheduleTrueIffPending ==
  \A i \in ReschedulesReturned :
     LET c == schedulerCalls[i]
     IN ~c.rejected =>
          /\ (c.result = "true") <=> (c.existed /\ ~c.wasRunning)
          /\ ( /\ c.result = "true"
               /\ \A j \in Reschedules : schedulerCalls[j].id = c.id => j = i
               /\ agendaJobs[c.id].runs > c.runsAtReturn )
             => agendaJobs[c.id].delivered = c.data

\* jobs made recurring by scheduleEvery
EveryJobs ==
  {id \in DOMAIN agendaJobs :
     /\ agendaJobs[id].repeatInterval # 0
     /\ \E i \in DOMAIN schedulerCalls :
          schedulerCalls[i].op = "scheduleEvery" /\ schedulerCalls[i].id = id}

\* C22: no handler invocation of a recurring job created by scheduleEvery
\* occurs before the job's runAt.
C22_NoFiringBeforeRunAt ==
  \A id \in EveryJobs : ~agendaJobs[id].firedEarly

\* C22 witness: a recurring job has been invoked.
C22_Witness ==
  \E id \in EveryJobs : agendaJobs[id].runs > 0 /\ ~agendaJobs[id].firedEarly

\* start calls
Starts == {i \in DOMAIN schedulerCalls : schedulerCalls[i].op = "start"}

\* C23: a start call that failed because agenda.start() failed leaves the
\* scheduler as it was before the call: the status is idle and the handlers
\* defined are those defined before.  Stated for a call that is the only
\* start call made, so that no other call accounts for a difference.
C23_FailedStartLeavesNothing ==
  \A i \in Starts :
     ( /\ schedulerCalls[i].result = "threw"
       /\ \A j \in Starts : j = i )
     => /\ schedulerStatus = "idle"
        /\ agendaDefinitions = schedulerCalls[i].defined

\* a step in which stop() is called
StopCalled ==
  /\ Len(schedulerCalls') = Len(schedulerCalls) + 1
  /\ schedulerCalls'[Len(schedulerCalls')].op = "stop"

\* a step in which a stop() call suspended at agenda.stop() returns or throws
StopReturned ==
  \E i \in Waiting("stop", "agendaStop") : schedulerCalls'[i].pc = "done"

\* C24: stop() on an idle scheduler returns at once and changes nothing;
\* otherwise it sets the status to stopping, and when agenda.stop() has
\* succeeded or thrown the status is idle as the call returns.
C24_StopTransitions ==
  [][ /\ StopCalled =>
           IF schedulerStatus = "idle"
           THEN /\ schedulerCalls'[Len(schedulerCalls')].pc = "done"
                /\ UNCHANGED <<schedulerStatus, agendaDefinitions, agendaStarted,
                               agendaJobs, clock>>
           ELSE /\ schedulerCalls'[Len(schedulerCalls')].pc = "agendaStop"
                /\ schedulerStatus' = "stopping"
      /\ StopReturned => schedulerStatus' = "idle" ]_vars

\* C24 witness: a stop() whose agenda.stop() threw has returned, and the
\* status is idle.
C24_Witness ==
  /\ schedulerStatus = "idle"
  /\ \E i \in DOMAIN schedulerCalls :
       /\ schedulerCalls[i].op = "stop" /\ schedulerCalls[i].result = "threw"
       /\ \E j \in Starts : j < i /\ schedulerCalls[j].result = "void"

\* no LLM call or tool execution of the run is in flight
NothingInFlight(r) == \A c \in llmCalls \cup toolExecs : c.run # r

\* the run made no LLM call and added no message since generate failed
StoppedAtFailure(r) ==
  /\ runs[r].llm = runs[r].failLlm
  /\ NothingInFlight(r)
  /\ IF runs[r].done THEN runs[r].endLen = runs[r].failLen
     ELSE Len(heap[runs[r].state].messages) = runs[r].failLen

\* C25: when generate fails with an error that is neither a cancellation nor
\* RetryExhaustedError, the run emits no runFinished, makes no further LLM
\* call and appends no message to the state.
C25_OtherLLMErrorEndsSilently ==
  \A r \in DOMAIN runs :
     runs[r].llmFailed => runs[r].fin = <<>> /\ StoppedAtFailure(r)

\* C25 witness: a run has ended on such a failure of its second LLM call,
\* after a step that added messages.
C25_Witness ==
  \E r \in EndedRuns :
     runs[r].llmFailed /\ runs[r].llm = 2 /\ runs[r].failLen > runs[r].startLen

\* C26: when generate fails with RetryExhaustedError, the run emits the one
\* event runFinished{ok: false} carrying the error and ends with no further
\* LLM call or tool execution.
C26_RetryExhaustedEndsRun ==
  \A r \in DOMAIN runs :
     runs[r].retryExhausted =>
       runs[r].fin = <<"retryExhausted">> /\ StoppedAtFailure(r)

\* C26 witness: a run has ended on RetryExhaustedError.
C26_Witness ==
  \E r \in EndedRuns : runs[r].retryExhausted /\ runs[r].llm >= 1

\* the runs that are over and whose AgentState the agent still holds
LiveEndedRuns == {r \in EndedRuns : runs[r].state = contextState}

\* every LLM call of the run was answered with a response
AllCallsAnswered(r) ==
  LET msgs == RunMessages(r)
  IN Cardinality({n \in DOMAIN msgs : msgs[n].role = "model"}) = runs[r].llm

\* the tool messages of the run that record a failure
FailedToolMessages(r) ==
  LET msgs == RunMessages(r)
  IN {n \in DOMAIN msgs : msgs[n].role = "tool" /\ ~msgs[n].success}

\* C27: a call of an unknown tool, and a tool execution that throws or
\* returns a failure, is recorded as a tool message with success = false and
\* does not end the run: every tool call of every model message has its tool
\* message, and a run that was not aborted and whose LLM calls were all
\* answered ends only on a model message without tool calls or on the step
\* limit.
C27_ToolFailureIsRecorded ==
  \A r \in LiveEndedRuns :
     LET msgs == RunMessages(r)
         failed == FailedToolMessages(r)
     IN /\ \A n \in DOMAIN msgs :
             (msgs[n].role = "tool" /\ msgs[n].name \notin KnownTools) => n \in failed
        /\ Cardinality({n \in failed : msgs[n].name \in KnownTools}) = runs[r].toolFailures
        /\ (~runs[r].abortReq /\ AllCallsAnswered(r)) =>
             /\ ToolCallsExecuted(r)
             /\ IF msgs[Len(msgs)].role = "model"
                THEN runs[r].fin = <<"ok">>
                ELSE runs[r].fin = <<"steps">> /\ runs[r].llm = MaxSteps

\* C27 witness: a run in which a tool call failed went on (with the next tool
\* call or the next step) and ended on a model message without tool calls.
C27_Witness ==
  \E r \in LiveEndedRuns :
     /\ ~runs[r].abortReq
     /\ runs[r].fin = <<"ok">>
     /\ FailedToolMessages(r) # {}

\* the positions, in the AgentState of the last run launched, of the tool
\* messages that run recorded for ema_reply calls, by success
ReplyMessages(ok) ==
  LET r == Len(runs)
      msgs == heap[contextState].messages
  IN {n \in DOMAIN msgs :
        /\ n > runs[r].startLen
        /\ msgs[n].role = "tool" /\ msgs[n].name = EmaReply /\ msgs[n].success = ok}

\* the emaReplyReceived events of the last run launched, as positions in
\* `delivered`
ReplyEvents ==
  {n \in DOMAIN delivered :
     delivered[n].kind = "emaReplyReceived" /\ delivered[n].run = Len(runs)}

\* C28: the emaReplyReceived events of a run are one for each successful
\* ema_reply tool call and none else; each was emitted when its tool message
\* was not yet in the state (the message is the next one appended), and that
\* message is stored without content.
C28_ReplyEventPerSuccessfulReply ==
  (runs # <<>> /\ contextState # 0) =>
     LET r == Len(runs)
         msgs == heap[contextState].messages
     IN /\ Cardinality(ReplyEvents) = Cardinality(ReplyMessages(TRUE))
        /\ {delivered[n].reply : n \in ReplyEvents}
             = {NextReplyId(S, r) - Len(msgs) + (n - 1) : n \in ReplyMessages(TRUE)}
        /\ \A n \in ReplyMessages(TRUE) : msgs[n].content = "undefined"

\* C28 witness: a run with a successful and a failed ema_reply call.
C28_Witness ==
  /\ runs # <<>> /\ contextState # 0
  /\ ReplyMessages(TRUE) # {}
  /\ ReplyMessages(FALSE) # {}


\* the template with each occurrence of the token replaced by `text`
RECURSIVE Spliced(_, _)
Spliced(template, text) ==
  IF template = <<>> THEN <<>>
  ELSE (IF Head(template) = MemoryBufferToken THEN text ELSE <<Head(template)>>)
       \o Spliced(Tail(template), text)

\* the rendering of the `count` most recent messages, oldest first, one per
\* line; None. when there is no message
RenderedBuffer(messages, count) ==
  LET recent == LastN(messages, count)
  IN IF messages = <<>> THEN <<"None.">>
     ELSE join([i \in 1..Len(recent) |-> bufferMessageToPrompt(BufferMessage(recent[i]))], "\n")

\* C29: buildSystemPrompt returns the template with every occurrence of
\* {MEMORY_BUFFER} replaced by the rendering of the 10 most recent stored
\* messages, oldest first, one per line, or by None. when the store is empty;
\* a template without the token is returned unchanged.
C29_PromptIsTemplateWithBuffer ==
  promptCall.done =>
    promptCall.text = Spliced(promptTemplate, RenderedBuffer(conversationMessages, BufferWindow))


\* the collection names of a snapshot file, in the order they were dumped
DumpedNames(file) == [i \in 1..Len(file.data) |-> file.data[i][1]]

\* names in ascending order of their code units, none twice
Ascending(names) ==
  \A i, j \in DOMAIN names : i < j => Precedes(names[i], names[j])

\* the collection names this server's components declare
ServerCollections ==
  UNION {Range(dbCollections[Dbs[i]]) : i \in DOMAIN Dbs}
    \cup (IF serverScheduler THEN {SchedulerCollectionName} ELSE {})

\* C30: every snapshot dumps the collection names the server's components
\* declare, whatever was called before and whatever the database holds, in
\* ascending order; two snapshots of the same database contents are equal.
C30_SnapshotsAreStable ==
  \A i \in DOMAIN snapshotFiles :
    /\ Range(DumpedNames(snapshotFiles[i])) = ServerCollections
    /\ Ascending(DumpedNames(snapshotFiles[i]))
    /\ \A j \in DOMAIN snapshotFiles :
         /\ DumpedNames(snapshotFiles[j]) = DumpedNames(snapshotFiles[i])
         /\ snapshotFiles[j].documents = snapshotFiles[i].documents
              => snapshotFiles[j].data = snapshotFiles[i].data

\* C30 witness: a snapshot of the empty database, then two snapshots of the
\* database after a document was inserted into a dumped collection, on a
\* server whose components declare their collections out of order.
C30_Witness ==
  /\ Len(snapshotFiles) = 3
  /\ snapshotFiles[1].documents # snapshotFiles[2].documents
  /\ snapshotFiles[2].documents = snapshotFiles[3].documents
  /\ \E n \in ServerCollections : snapshotFiles[2].documents[n] # <<>>
  /\ ~Ascending(snapshotCollections(dbCollections, serverScheduler))
  /\ Cardinality(ServerCollections) = 3

\* C31: whenever no processQueue invocation is running, the status is idle,
\* also after the assembly of the system prompt has thrown.
C31_IdleWhenNoProcessQueue ==
  pqActive = 0 => currentStatus = "idle"

\* C32: every message handed to enqueueBufferWrite is attempted against the
\* conversation store: when a message leaves the write pipeline, an
\* addConversationMessage request for it is made, also after an earlier
\* write has failed.
C32_EveryEnqueuedWriteIsAttempted ==
  [][Len(bufferWritePromise'.links) < Len(bufferWritePromise.links)
       => \E w \in dbWrites' \ dbWrites : w.msg = Head(bufferWritePromise.links)]_vars

C34_StatusMatchesDispatcher ==
  (\A i \in DOMAIN schedulerCalls :
     /\ schedulerCalls[i].pc = "done"
     /\ schedulerCalls[i].result # "threw")
    => (schedulerStatus = "running" <=> agendaStarted)

\* C35: a run during which abort was called, once or more often, ends with
\* the single event runFinished "Aborted"; and the abort flag is set during
\* a run only when abort was called during that run, so a run launched after
\* an aborted one starts with the flag cleared.
C35_AbortIsIdempotentAndScoped ==
  /\ \A r \in EndedRuns : runs[r].abortReq => runs[r].fin = <<"Aborted">>
  /\ \A r \in ActiveRuns(S) : abortRequested => runs[r].abortReq

\* the runs whose AgentState the agent holds and in which no abort was requested
UnabortedRuns ==
  {r \in DOMAIN runs : runs[r].state # 0 /\ runs[r].state = contextState /\ ~runs[r].abortReq}

\* the messages of the run that follow its model message at position n, up
\* to the next model message
ToolMessagesAfter(r, n) ==
  LET msgs == RunMessages(r)
      later == {m \in DOMAIN msgs : m > n /\ msgs[m].role = "model"}
      last == IF later = {} THEN Len(msgs)
              ELSE (CHOOSE m \in later : \A l \in later : m <= l) - 1
  IN SubSeq(msgs, n + 1, last)

\* the LLM calls of the run made after its model message at position n
LLMCallsAfter(r, n) ==
  LET msgs == RunMessages(r)
  IN runs[r].llm - Cardinality({m \in 1..n : msgs[m].role = "model"})

\* C36: in a run that is not aborted the messages that follow a model message
\* are tool messages, one per tool call and in the order of the calls, each
\* carrying the name of its call; when the next LLM call is made there is one
\* for every call of the model message.
C36_ToolMessagesAnswerToolCalls ==
  \A r \in UnabortedRuns :
    \A n \in DOMAIN RunMessages(r) :
      RunMessages(r)[n].role = "model" =>
        LET toolCalls == RunMessages(r)[n].toolCalls
            answers == ToolMessagesAfter(r, n)
        IN /\ Len(answers) <= Len(toolCalls)
           /\ \A i \in DOMAIN answers :
                answers[i].role = "tool" /\ answers[i].name = toolCalls[i]
           /\ LLMCallsAfter(r, n) > 0 => Len(answers) = Len(toolCalls)

\* C36 witness: a model message with two tool calls was answered by two tool
\* messages, and the next LLM call of the run has been made.
C36_Witness ==
  \E r \in UnabortedRuns :
    \E n \in DOMAIN RunMessages(r) :
      /\ RunMessages(r)[n].role = "model"
      /\ Len(RunMessages(r)[n].toolCalls) = 2
      /\ Len(ToolMessagesAfter(r, n)) = 2
      /\ LLMCallsAfter(r, n) > 0

\* the agent events among the events delivered to the subscribers, as
\* emitted by the run in progress or last ended
DeliveredAgentEvents ==
  LET agentEvents == SelectSeq(delivered, LAMBDA e : e.kind \in {"runFinished", "emaReplyReceived"})
  IN [n \in DOMAIN agentEvents |->
        [kind |-> agentEvents[n].kind, msg |-> agentEvents[n].msg,
         reply |-> agentEvents[n].reply]]

\* C37: within a run runFinished is the last agent event, after every
\* emaReplyReceived of the run, and the subscribers of the worker receive
\* the agent events of the run once each, in the order the agent emitted them.
C37_RunFinishedIsLastAgentEvent ==
  runs # <<>> =>
    LET emitted == runs[Len(runs)].emitted
    IN /\ \A n \in DOMAIN emitted : emitted[n].kind = "runFinished" => n = Len(emitted)
       /\ DeliveredAgentEvents = emitted
       /\ \A n \in DOMAIN delivered :
            delivered[n].kind # "message" => delivered[n].run = Len(runs)

\* C37 witness: a run has ended after emitting emaReplyReceived and then
\* runFinished, and its subscribers have received both.
C37_Witness ==
  /\ runs # <<>>
  /\ runs[Len(runs)].done
  /\ Len(runs[Len(runs)].emitted) = 2
  /\ runs[Len(runs)].emitted[1].kind = "emaReplyReceived"
  /\ runs[Len(runs)].emitted[2].kind = "runFinished"
  /\ Len(DeliveredAgentEvents) = 2

\* C38: when the conversation store has answered the read of the buffer
\* window for a fresh AgentState, the window holds the inputs of the batch
\* the state is built for: their writes, enqueued before the build began,
\* were completed before the read (no request failed).
C38_WritesCompleteBeforeWindowRead ==
  faults = 0 =>
    \A n \in DOMAIN mq :
      (mq[n].k = "PqAfterPrompt" /\ mq[n].y[1] = "ok") =>
        \A b \in DOMAIN mq[n].x :
          \E m \in DOMAIN mq[n].y[2] :
            /\ mq[n].y[2][m].kind = "user"
            /\ mq[n].y[2][m].contents = mq[n].x[b].contents


\* the input is in a batch that processQueue has drained and is building the
\* system prompt for
InPreparation(i) ==
  \/ \E c \in dbReads : \E n \in DOMAIN c.batch : c.batch[n].contents = i
  \/ \E m \in DOMAIN mq : /\ mq[m].k = "PqAfterPrompt"
                          /\ \E n \in DOMAIN mq[m].x : mq[m].x[n].contents = i

\* the input was in the batch of a run, live or forgotten
HandedToSomeRun(i) ==
  \E r \in DOMAIN runs : \/ \E n \in DOMAIN runs[r].batch : runs[r].batch[n].contents = i
                         \/ i <= runs[r].prev.last

\* the run that was being prepared when the last work() call arrived, and the
\* run after it
PreparedRun == lastCall.launched + 1
FollowingRun == lastCall.launched + 2

\* the AgentState of the run holds the input as a user message
RunHoldsInput(r, i) ==
  /\ runs[r].state # 0
  /\ \E n \in DOMAIN heap[runs[r].state].messages :
        heap[runs[r].state].messages[n] = [role |-> "user", contents |-> i]

\* the call neither joins nor cancels the run being prepared: that run is
\* launched with the drained batch, no abort is requested in it and its
\* AgentState never holds the new input; a run that gets the new input is the
\* run after it, and starts on a new AgentState holding only its own batch
NoInterference ==
  /\ \A r \in DOMAIN runs : RunHoldsInput(r, lastCall.id) \/
         (\E n \in DOMAIN runs[r].batch : runs[r].batch[n].contents = lastCall.id)
       => r = FollowingRun
  /\ (PreparedRun \in DOMAIN runs /\ runs[PreparedRun].state # 0) =>
       /\ ~runs[PreparedRun].abortReq
       /\ runs[PreparedRun].batch # <<>>
  /\ FollowingRun \in DOMAIN runs =>
       /\ ~runs[FollowingRun].prev.abortReq
       /\ ~runs[FollowingRun].prev.extended
       /\ runs[FollowingRun].state # 0 =>
            /\ runs[FollowingRun].state # runs[FollowingRun].prev.state
            /\ runs[FollowingRun].startLen = Len(runs[FollowingRun].batch)
            /\ runs[FollowingRun].batch = <<bufferMessageFromUser(lastCall.id)>>

\* C39 (as claimed): a work() call that arrives while the status is preparing
\* neither joins nor cancels the run being prepared: that run executes without
\* the new input, and the new input is handled by the following run on a
\* fresh AgentState, so that it has been handed to that run once no
\* processQueue is active any more.
C39_CallWhilePreparingLeavesRunAlone ==
  lastCall.at = "preparing" =>
    /\ NoInterference
    /\ pqActive = 0 => HandedToSomeRun(lastCall.id)

\* the AgentState of the run held, when it was launched, the user messages of
\* its batch last and in the order of the batch
LaunchedWithBatch(r) ==
  LET msgs == heap[runs[r].state].messages
      first == runs[r].startLen - Len(runs[r].batch)
  IN /\ first >= 0
     /\ \A n \in DOMAIN runs[r].batch :
          msgs[first + n] = bufferMessageToUserMessage(runs[r].batch[n])

\* C40 (as claimed): all inputs queued when processQueue drains the queue are
\* handed to one and the same run as user messages in the order of their
\* work() calls, with none dropped or duplicated, and the queue is empty right
\* after the drain.
C40_DrainHandsQueuedInputsToOneRun ==
  /\ \A i \in 1..nWork :
       \/ \E n \in DOMAIN queue : queue[n].contents = i
       \/ InPreparation(i)
       \/ HandedToSomeRun(i)
  /\ \A r \in DOMAIN runs : runs[r].state # 0 =>
       /\ LaunchedWithBatch(r)
       /\ \A n \in 2..Len(runs[r].batch) :
            runs[r].batch[n].contents = runs[r].batch[n - 1].contents + 1
       /\ \A q \in DOMAIN runs : \A n \in DOMAIN runs[r].batch : \A m \in DOMAIN runs[q].batch :
            runs[r].batch[n] = runs[q].batch[m] => r = q
  /\ (dbReads # {} /\ lastCall.at # "preparing") => queue = <<>>

====
